---- MODULE Spec2Model ----
(***************************************************************************)
(* Model of the concurrent detail-extraction pipeline of the RentFaster    *)
(* scraper: scrape_details_parallel.py (main, scrape_parallel,             *)
(* scrape_batch_worker, save_progress, print_live_status), with the        *)
(* matching workers of scrape_offline_parallel.py and                      *)
(* scripts/download_raw_html_parallel.py.                                  *)
(***************************************************************************)
EXTENDS Integers, Sequences, FiniteSets, TLC

\* ------------------------------------------------------------------ bounds
MaxListings == 3      \* catalogue sizes 0..MaxListings in the full run
MaxWorkers == 2       \* num_workers in 1..MaxWorkers in the full run
MaxBatchSave == 2     \* batch_save in 1..MaxBatchSave
MaxPartListings == 7  \* backlog sizes of the partition-only specification
MaxPartWorkers == 4   \* worker counts of the partition-only specification
MaxStatWorkers == 2   \* batch workers of the statistics specification
MaxStatItems == 1     \* items each of them completes
MaxDedupeLen == 3     \* entries in the database handed to the deduplicator
MaxRerunListings == 2 \* catalogue sizes of the run after an earlier run
MaxCards == 3         \* unit cards on a multi-unit page
MaxFetchCities == 2
MaxFetchPages == 2
MaxFetchWorkers == 2
MaxTextLen == 4       \* words of a page's text

\* ----------------------------------------------------------------- helpers
Max(a, b) == IF a >= b THEN a ELSE b
Min(a, b) == IF a <= b THEN a ELSE b

\* Python's s[lo:hi] on a list, lo and hi 0-based, hi clamped to len(s).
Slice(s, lo, hi) == SubSeq(s, lo + 1, Min(hi, Len(s)))

RECURSIVE Concat(_)
Concat(ss) == IF ss = <<>> THEN <<>> ELSE Head(ss) \o Concat(Tail(ss))

Range(s) == {s[i] : i \in 1..Len(s)}

\* The catalogue rentfaster_listings.json: n Listing References, ref_ids 1..n.
Catalogue(n) == [i \in 1..n |-> i]

\* ----------------------------------------------------------------- records
\* A ref_id is <<id, 0>> for a listing's own identifier and <<id, idx>> for the
\* composite f"{ref_id}_unit_{idx}" of a multi-unit member (idx >= 1).
NoParent == 0

\* The original Listing Reference of catalogue item i: no scrape-derived key.
Original(i) ==
    [ref_id |-> <<i, 0>>, parent_ref_id |-> NoParent,
     is_multi_unit |-> FALSE, scraped_at |-> 0]

\* merged = {**listing, **details} on the single-unit path at time `now`.
MergeSingle(i, now) ==
    [ref_id |-> <<i, 0>>, parent_ref_id |-> NoParent,
     is_multi_unit |-> FALSE, scraped_at |-> now]

\* merged = {**listing, **unit} for the unit card idx of listing i: the unit's
\* composite ref_id overrides the listing's.
MergeUnit(i, idx, now) ==
    [ref_id |-> <<i, idx>>, parent_ref_id |-> i,
     is_multi_unit |-> TRUE, scraped_at |-> now]

\* The multi-unit pages of the run: `cards` unit cards are on the page and the
\* cards at the positions in `ok` are extracted without error.
UnitCases == {[cards |-> 2, ok |-> {1, 2}], [cards |-> 2, ok |-> {2}]}

\* --------------------------------------------------------------- variables
VARIABLES
    pc,                \* position of the main thread
    force_rescrape,    \* main's force_rescrape argument
    file_exists,       \* rentfaster_detailed_parallel.json exists
    file,              \* its contents, a list of records
    file0,             \* history: its contents when the run started
    existing,          \* main's `existing`
    listings,          \* the backlog handed to scrape_parallel
    num_workers,       \* num_workers argument
    batch_save,        \* batch_save argument of scrape_parallel
    range_i,           \* loop variable i of the batch-creation loop
    batches,           \* scrape_parallel's `batches` (the batch of each tuple)
    stats,             \* the global stats dict (guarded by stats_lock)
    wpc,               \* per batch: position of its scrape_batch_worker call
    driver,            \* per batch: the worker's `driver` variable
    quit_calls,        \* history, per batch: driver.quit() calls made
    widx,              \* per batch: items of the batch already processed
    results,           \* per batch: the worker's `results` list
    outcomes,          \* history, per batch: how each processed item ended
    retval,            \* per batch: the value the worker returned
    collected,         \* batches whose future as_completed has yielded
    detailed_listings, \* scrape_parallel's accumulation list
    new_listings_bound,\* main's local new_listings has been assigned
    new_listings,      \* its value
    saves,             \* history: number of save_progress writes
    save_errors,       \* history: save_progress calls that raised
    at_interrupt,      \* history: the batches finished when the interrupt arrived
    downloader,        \* the program is download_raw_html_parallel.py
    lock_holders,      \* threads inside a `with stats_lock:` block
    spc,               \* per thread: position inside its stats update or read
    tmp,               \* per thread: the value loaded by a `+= 1`
    kind,              \* per worker: how the item it is counting ended
    left,              \* per worker: items it has still to complete
    performed,         \* history: item completions counted, by kind
    shown,             \* the counters print_live_status has read
    all_data,          \* deduplicate_database: the entries loaded
    grouped,           \* its dict ref_id -> entries, in insertion order
    deduplicated,      \* its output list
    removed,           \* its count of entries removed
    offline,           \* the extractor is scrape_offline_parallel.py's
    page,              \* the listing page handed to the extractor
    extracted_units,   \* the list `units` the multi-unit path returns
    parking_spots,     \* details['parking_spots']
    building_type,     \* details['building_type']
    listing,           \* the Listing Reference a result is merged onto
    details,           \* what the extractor returned for it
    merged,            \* the records the worker appends for it
    dpc,               \* where the thread of update_display is
    late_render,       \* it printed a status after the orchestrator's loop
    lthread,           \* per thread: its lock blocks entered and awaited
    fetcher            \* the page fetcher: its queues, flags and threads

runVarsButStats ==
    <<pc, force_rescrape, file_exists, file, file0, existing, listings,
      num_workers, batch_save, range_i, batches, wpc, driver, quit_calls,
      widx, results, outcomes, retval, collected, detailed_listings,
      new_listings_bound, new_listings, saves, save_errors, at_interrupt>>

runVars == <<runVarsButStats, stats>>

statVars == <<downloader, lock_holders, spc, tmp, kind, left, performed, shown>>

dedupeVars == <<all_data, grouped, deduplicated, removed>>

extractVars ==
    <<offline, page, extracted_units, parking_spots, building_type>>

mergeVars == <<listing, details, merged>>

displayVars == <<dpc, late_render>>

lockVars == <<lthread>>

fetchVars == <<fetcher>>

toolVars ==
    <<dedupeVars, extractVars, mergeVars, displayVars, lockVars, fetchVars>>

vars == <<runVars, statVars, toolVars>>

\* This run's capture timestamp (datetime.now().isoformat()), later than the
\* timestamp PriorRun of any record an earlier run left in the file.
PriorRun == 1
ThisRun == 2

\* ------------------------------------------------------------------- stats
\* The module-level stats dict, scrape_details_parallel.py lines 36-46
\* (multi_unit_found and total_units_found are read with default 0).
\* (skipped is the downloader's counter, download_raw_html_parallel.py line 49.)
ZeroStats ==
    [total |-> 0, completed |-> 0, success |-> 0, failed |-> 0,
     active_workers |-> 0, batches_completed |-> 0, total_batches |-> 0,
     multi_unit_found |-> 0, total_units_found |-> 0, skipped |-> 0]

\* The display thread of update_display; batch workers are 1, 2, ...
DisplayThread == 0

\* The statistics variables while no thread of the statistics specification
\* runs.
StatIdle ==
    /\ downloader = FALSE
    /\ lock_holders = {}
    /\ spc = <<>> /\ tmp = <<>> /\ kind = <<>> /\ left = <<>>
    /\ performed = [k \in {"success", "failed", "skipped"} |-> 0]
    /\ shown = ZeroStats

\* Python's None where a number is expected.
None == -1

\* A page without unit cards and without text.
NoPage ==
    [cards |-> 0, ok |-> {}, h1 |-> FALSE, text |-> <<>>, beds |-> None,
     price |-> None, building |-> FALSE]

\* None as the value of a key whose other values are strings.
NoneText == "None"

\* The page fetcher while it does not run.
FetchIdle == fetcher = <<>>

\* The merge of the worker while it is not under study.
MergeIdle ==
    /\ listing = <<>> /\ details = <<>> /\ merged = <<>>
    /\ dpc = "none" /\ late_render = FALSE
    /\ FetchIdle
    /\ lthread = <<>>

\* The variables of deduplicate_database and of the field extractor while
\* neither of them runs on its own.
ToolIdle ==
    /\ all_data = <<>> /\ grouped = <<>> /\ deduplicated = <<>>
    /\ removed = 0
    /\ offline = FALSE
    /\ page = NoPage
    /\ extracted_units = <<>>
    /\ parking_spots = None
    /\ building_type = NoneText
    /\ MergeIdle

\* ---------------------------------------------------- batch creation (pure)
\* batch_size = max(1, len(listings) // num_workers)
BatchSize(n, w) == Max(1, n \div w)

\* Mutant of NextBatch: the slice runs one item too far.
NextBatchOverlapping(ls, i, bs) == Slice(ls, i, i + bs + 1)

\* One pass of `for i in range(0, len(listings), batch_size)`:
\* batch = listings[i:i + batch_size]
NextBatch(ls, i, bs) == Slice(ls, i, i + bs)

\* -------------------------------------------------------------------- main
\* The checkpoint files an earlier run may have left: none, or one holding the
\* enriched record of listing 1.
PriorFiles == {<<>>, <<MergeSingle(1, PriorRun)>>}

\* The file is absent (read as <<>>), or present with records in it.

\* scraped_ids = {d['ref_id'] for d in existing}
ScrapedIds(ex) == {ex[k].ref_id : k \in 1..Len(ex)}

\* [l for l in all_listings if l['ref_id'] not in scraped_ids]
Remaining(ls, ex) == SelectSeq(ls, LAMBDA i : <<i, 0>> \notin ScrapedIds(ex))

\* save_progress(data): the file is replaced by data as a whole.
SaveProgress(data) ==
    /\ file' = data
    /\ file_exists' = TRUE
    /\ saves' = saves + 1
    /\ UNCHANGED save_errors

NoSave == UNCHANGED <<file, file_exists, saves, save_errors>>

workerVars == <<wpc, driver, quit_calls, widx, results, outcomes, retval>>
mainVars == <<force_rescrape, file0, existing, num_workers, batch_save>>

Init ==
    /\ pc = "start"
    /\ force_rescrape \in BOOLEAN
    /\ file_exists \in BOOLEAN
    /\ file \in PriorFiles
    /\ file_exists <=> file # <<>>
    /\ force_rescrape => file_exists
    /\ file0 = file
    /\ existing = <<>>
    /\ \E n \in 0..MaxListings : listings = Catalogue(n)
    /\ num_workers \in 1..MaxWorkers
    /\ batch_save \in 1..MaxBatchSave
    /\ range_i = 0
    /\ batches = <<>>
    /\ stats = ZeroStats
    /\ wpc = <<>> /\ driver = <<>> /\ quit_calls = <<>> /\ widx = <<>>
    /\ results = <<>> /\ outcomes = <<>> /\ retval = <<>>
    /\ collected = {}
    /\ detailed_listings = <<>>
    /\ new_listings_bound = FALSE
    /\ new_listings = <<>>
    /\ saves = 0
    /\ save_errors = 0
    /\ at_interrupt = {}
    /\ StatIdle
    /\ ToolIdle

\* A first run: there is no checkpoint file (line 1077), and the checkpoint
\* interval is the one given.
InitFresh == Init /\ ~file_exists /\ batch_save = MaxBatchSave

\* main, lines 1058-1079: read the checkpoint file and drop the listings
\* already in it, or start from nothing when forced or when there is no file.
LoadExisting ==
    /\ pc = "start"
    /\ IF file_exists /\ ~force_rescrape
         THEN /\ existing' = file
              /\ listings' = Remaining(listings, file)
         ELSE /\ existing' = <<>>
              /\ UNCHANGED listings
    /\ pc' = "partition"
    /\ UNCHANGED <<force_rescrape, file_exists, file, file0, num_workers,
                   batch_save, range_i, batches, stats, collected,
                   detailed_listings, new_listings_bound, new_listings, saves, save_errors,
                   at_interrupt>>
    /\ UNCHANGED workerVars
    /\ UNCHANGED <<statVars, toolVars>>

\* scrape_parallel, lines 860-865: one pass of the batch-creation loop.
CreateBatch ==
    /\ pc = "partition"
    /\ range_i < Len(listings)
    /\ LET bs == BatchSize(Len(listings), num_workers) IN
         /\ batches' = Append(batches, NextBatch(listings, range_i, bs))
         /\ range_i' = range_i + bs
    /\ UNCHANGED <<pc, listings, file_exists, file, stats, collected,
                   detailed_listings, new_listings_bound, new_listings, saves, save_errors,
                   at_interrupt>>
    /\ UNCHANGED mainVars
    /\ UNCHANGED workerVars
    /\ UNCHANGED <<statVars, toolVars>>

\* scrape_parallel, lines 880-894: the loop has ended; stats are initialised
\* and every batch is submitted to the pool.
Dispatch ==
    /\ pc = "partition"
    /\ range_i >= Len(listings)
    /\ stats' = [stats EXCEPT !.total = Len(listings),
                              !.total_batches = Len(batches)]
    /\ wpc' = [b \in 1..Len(batches) |-> "queued"]
    /\ driver' = [b \in 1..Len(batches) |-> "none"]
    /\ quit_calls' = [b \in 1..Len(batches) |-> 0]
    /\ widx' = [b \in 1..Len(batches) |-> 0]
    /\ results' = [b \in 1..Len(batches) |-> <<>>]
    /\ outcomes' = [b \in 1..Len(batches) |-> <<>>]
    /\ retval' = [b \in 1..Len(batches) |-> <<>>]
    /\ pc' = "collect"
    /\ UNCHANGED <<listings, range_i, batches, file_exists, file, collected,
                   detailed_listings, new_listings_bound, new_listings, saves, save_errors,
                   at_interrupt>>
    /\ UNCHANGED mainVars
    /\ UNCHANGED <<statVars, toolVars>>

\* ------------------------------------------------------ scrape_batch_worker
Batches == DOMAIN wpc

\* Batches a pool thread is executing.
Running == {b \in Batches : wpc[b] \notin {"queued", "done"}}

\* A pool that starts a thread for every submitted batch.
PoolUnbounded == TRUE

\* ThreadPoolExecutor(max_workers=num_workers): a free thread takes the oldest
\* queued work item.
PoolHasFreeThread == Cardinality(Running) < num_workers

CanStart(b) ==
    /\ wpc[b] = "queued"
    /\ \A c \in Batches : c < b => wpc[c] # "queued"
    /\ PoolHasFreeThread

mainFrame ==
    UNCHANGED <<pc, force_rescrape, file_exists, file, file0, existing,
                listings, num_workers, batch_save, range_i, batches, collected,
                detailed_listings, new_listings_bound, new_listings, saves, save_errors,
                at_interrupt>>
    /\ UNCHANGED <<statVars, toolVars>>

\* Mutant of BatchErrorResult: the handler returns the results gathered so far.
BatchErrorResultPartial(batch, res) == res

\* The value the worker returns from its batch-level handler, line 768:
\* [listing for listing in batch]
BatchErrorResult(batch, res) == [k \in 1..Len(batch) |-> Original(batch[k])]

\* lines 706-714: a pool thread starts the batch, counts itself active under
\* stats_lock, and setup_driver returns a session.
WorkerStart(b) ==
    /\ CanStart(b)
    /\ stats' = [stats EXCEPT !.active_workers = @ + 1]
    /\ driver' = [driver EXCEPT ![b] = "open"]
    /\ wpc' = [wpc EXCEPT ![b] = "loop"]
    /\ UNCHANGED <<quit_calls, widx, results, outcomes, retval>>
    /\ mainFrame

\* lines 706-714, 764-768: the same, but setup_driver raises: driver stays
\* None and the batch-level handler chooses the return value.
WorkerStartFails(b) ==
    /\ CanStart(b)
    /\ stats' = [stats EXCEPT !.active_workers = @ + 1]
    /\ retval' = [retval EXCEPT ![b] = BatchErrorResult(batches[b], results[b])]
    /\ wpc' = [wpc EXCEPT ![b] = "finally"]
    /\ UNCHANGED <<driver, quit_calls, widx, results, outcomes>>
    /\ mainFrame

\* The listing the loop is at.
Current(b) == batches[b][widx[b] + 1]

InLoop(b) == wpc[b] = "loop" /\ widx[b] < Len(batches[b])

\* The unit records extract_multi_unit_details returns for listing i when the
\* cards at the 1-based positions in `ok` are extracted and the others raise
\* (lines 267-366): one record per extracted card, in card order.
RECURSIVE UnitRecords(_, _, _)
UnitRecords(i, k, ok) ==
    IF k = 0 THEN <<>>
    ELSE UnitRecords(i, k - 1, ok)
           \o (IF k \in ok THEN <<MergeUnit(i, k, ThisRun)>> ELSE <<>>)

\* Mutant of FailedItemResult: a failed item is dropped.
FailedItemDropped(i) == <<>>

\* What a failed item adds to results, lines 743 and 753: the listing itself.
FailedItemResult(i) == <<Original(i)>>

\* The counters after a failed item, lines 744-746 and 754-756.
FailedItemStats(st) ==
    [st EXCEPT !.completed = @ + 1, !.failed = @ + 1]

\* Mutant of AfterFailedItem: a failed item ends the loop (break).
BreakAfterFailedItem(b) ==
    /\ widx' = [widx EXCEPT ![b] = Len(batches[b])]
    /\ UNCHANGED wpc

\* Where the loop goes after a failed item: on to the next listing.
AfterFailedItem(b) ==
    /\ widx' = [widx EXCEPT ![b] = @ + 1]
    /\ UNCHANGED wpc

\* lines 721-734: extraction returns a non-empty list (multi-unit listing).
ItemMultiUnit(b) ==
    /\ InLoop(b)
    /\ \E c \in UnitCases :
         LET units == UnitRecords(Current(b), c.cards, c.ok) IN
         /\ units # <<>>
         /\ results' = [results EXCEPT ![b] = @ \o units]
         /\ stats' = [stats EXCEPT
                        !.completed = @ + 1, !.success = @ + 1,
                        !.multi_unit_found = @ + 1,
                        !.total_units_found = @ + Len(units)]
    /\ outcomes' = [outcomes EXCEPT ![b] = Append(@, "multi")]
    /\ widx' = [widx EXCEPT ![b] = @ + 1]
    /\ UNCHANGED <<wpc, driver, quit_calls, retval>>
    /\ mainFrame

\* lines 721, 735-741: extraction returns a dict (single-unit listing).
ItemSingle(b) ==
    /\ InLoop(b)
    /\ results' = [results EXCEPT
                     ![b] = Append(@, MergeSingle(Current(b), ThisRun))]
    /\ stats' = [stats EXCEPT !.completed = @ + 1, !.success = @ + 1]
    /\ outcomes' = [outcomes EXCEPT ![b] = Append(@, "single")]
    /\ widx' = [widx EXCEPT ![b] = @ + 1]
    /\ UNCHANGED <<wpc, driver, quit_calls, retval>>
    /\ mainFrame

\* lines 721, 742-746: extraction returns None (page not loaded, extraction
\* error caught inside extract_listing_details, or no unit card extracted).
ItemNone(b) ==
    /\ InLoop(b)
    /\ results' = [results EXCEPT ![b] = @ \o FailedItemResult(Current(b))]
    /\ stats' = FailedItemStats(stats)
    /\ outcomes' = [outcomes EXCEPT ![b] = Append(@, "failed")]
    /\ AfterFailedItem(b)
    /\ UNCHANGED <<driver, quit_calls, retval>>
    /\ mainFrame

\* lines 748-756: processing the listing raises; the per-item handler runs.
ItemRaises(b) ==
    /\ InLoop(b)
    /\ results' = [results EXCEPT ![b] = @ \o FailedItemResult(Current(b))]
    /\ stats' = FailedItemStats(stats)
    /\ outcomes' = [outcomes EXCEPT ![b] = Append(@, "failed")]
    /\ AfterFailedItem(b)
    /\ UNCHANGED <<driver, quit_calls, retval>>
    /\ mainFrame

\* Mutant of QuitCalls: the finally block does not quit the driver.
QuitCallsNone(d) == 0

\* The driver.quit() calls the finally block makes, lines 770-775.
QuitCalls(d) == IF d = "open" THEN 1 ELSE 0

\* A finally block that a failing driver.quit() leaves before the counters.
FinallyStatsQuitFatal(st, quit_raised) ==
    IF quit_raised THEN st
    ELSE [st EXCEPT !.active_workers = @ - 1, !.batches_completed = @ + 1]

\* lines 770-778: the counters after the finally block; an exception of
\* driver.quit() is caught at line 773 and the counters are updated all the
\* same.
FinallyStats(st, quit_raised) ==
    [st EXCEPT !.active_workers = @ - 1, !.batches_completed = @ + 1]

\* The worker is about to leave: the loop is over (line 762, return results)
\* or the batch-level handler has returned (line 768).
Leaving(b) ==
    \/ wpc[b] = "finally"
    \/ wpc[b] = "loop" /\ widx[b] = Len(batches[b])

\* lines 762-778: the return value is fixed, the finally block quits the
\* driver (a failing quit is caught, line 773) and updates the counters under
\* stats_lock; then the future holds the return value.
BatchFinally(b) ==
    /\ Leaving(b)
    /\ retval' = [retval EXCEPT ![b] = IF wpc[b] = "loop" THEN results[b] ELSE @]
    /\ quit_calls' = [quit_calls EXCEPT ![b] = @ + QuitCalls(driver[b])]
    /\ driver' = [driver EXCEPT
                    ![b] = IF QuitCalls(@) > 0 THEN "closed" ELSE @]
    /\ stats' \in {FinallyStats(stats, quit_raised) :
                      quit_raised \in {r \in BOOLEAN : r => driver[b] = "open"}}
    /\ wpc' = [wpc EXCEPT ![b] = "done"]
    /\ UNCHANGED <<widx, results, outcomes>>
    /\ mainFrame

\* ---------------------------------------------------- scrape_parallel, main
\* line 913: if len(detailed_listings) % batch_save == 0
SaveDue(acc) == Len(acc) % batch_save = 0

\* What the periodic checkpoint writes, line 914.
PeriodicData(acc) == acc

\* An accumulation that puts the newest batch first.
AccumulateFront(acc, batch_results) == batch_results \o acc

\* line 910: detailed_listings.extend(batch_results)
Accumulate(acc, batch_results) == acc \o batch_results

\* lines 908-914: as_completed yields a finished batch; its results are
\* appended and the periodic checkpoint is written when due.
Collect(b) ==
    /\ pc = "collect"
    /\ b \in Batches \ collected
    /\ wpc[b] = "done"
    /\ collected' = collected \cup {b}
    /\ detailed_listings' = Accumulate(detailed_listings, retval[b])
    /\ IF SaveDue(detailed_listings')
         THEN SaveProgress(PeriodicData(detailed_listings'))
         ELSE NoSave
    /\ UNCHANGED <<pc, listings, range_i, batches, stats, new_listings_bound,
                   new_listings, at_interrupt>>
    /\ UNCHANGED mainVars
    /\ UNCHANGED workerVars
    /\ UNCHANGED <<statVars, toolVars>>

\* lines 916-933 and 1103: every future was yielded; scrape_parallel returns
\* and main binds new_listings.
ScrapeReturns ==
    /\ pc = "collect"
    /\ collected = Batches
    /\ new_listings' = detailed_listings
    /\ new_listings_bound' = TRUE
    /\ pc' = "final"
    /\ UNCHANGED <<listings, range_i, batches, stats, collected,
                   detailed_listings, at_interrupt>>
    /\ NoSave
    /\ UNCHANGED mainVars
    /\ UNCHANGED workerVars
    /\ UNCHANGED <<statVars, toolVars>>

\* A final checkpoint that leaves out the records of earlier runs.
FinalDataNewOnly == new_listings

\* What the final checkpoint writes, lines 1110 and 1115.
FinalData == existing \o new_listings

\* lines 1105-1116: all_detailed = existing + new_listings; save_progress.
FinalSave ==
    /\ pc = "final"
    /\ SaveProgress(FinalData)
    /\ pc' = "done"
    /\ UNCHANGED <<listings, range_i, batches, stats, collected,
                   detailed_listings, new_listings_bound, new_listings,
                   at_interrupt>>
    /\ UNCHANGED mainVars
    /\ UNCHANGED workerVars
    /\ UNCHANGED <<statVars, toolVars>>

\* Ctrl+C while scrape_parallel waits in as_completed: KeyboardInterrupt is
\* raised in the main thread and leaves the loop of lines 908-914.
InterruptCollect ==
    /\ pc = "collect"
    /\ at_interrupt' = {b \in Batches : wpc[b] = "done"}
    /\ pc' = "unwinding"
    /\ UNCHANGED <<listings, range_i, batches, stats, collected,
                   detailed_listings, new_listings_bound, new_listings>>
    /\ NoSave
    /\ UNCHANGED mainVars
    /\ UNCHANGED workerVars
    /\ UNCHANGED <<statVars, toolVars>>

\* An executor whose exit does not wait for the submitted batches.
ExecutorShutdownNoWait == TRUE

\* line 889: ThreadPoolExecutor.__exit__ is shutdown(wait=True); it returns
\* when every submitted batch, queued ones included, has run to its end.
ExecutorShutdownWaits == \A b \in Batches : wpc[b] = "done"

\* line 889: leaving the `with ThreadPoolExecutor` block waits for every
\* submitted batch; then the exception reaches main's handler.
ExecutorExit ==
    /\ pc = "unwinding"
    /\ ExecutorShutdownWaits
    /\ pc' = "handler"
    /\ UNCHANGED <<listings, range_i, batches, stats, collected,
                   detailed_listings, new_listings_bound, new_listings,
                   at_interrupt>>
    /\ NoSave
    /\ UNCHANGED mainVars
    /\ UNCHANGED workerVars
    /\ UNCHANGED <<statVars, toolVars>>

\* Ctrl+C after scrape_parallel has returned, before the final save
\* (lines 1105-1114).
InterruptFinal ==
    /\ pc = "final"
    /\ at_interrupt' = {b \in Batches : wpc[b] = "done"}
    /\ pc' = "handler"
    /\ UNCHANGED <<listings, range_i, batches, stats, collected,
                   detailed_listings, new_listings_bound, new_listings>>
    /\ NoSave
    /\ UNCHANGED mainVars
    /\ UNCHANGED workerVars
    /\ UNCHANGED <<statVars, toolVars>>

\* lines 1132-1137: `if new_listings:` reads main's local new_listings.
HandlerReadsNewListings == new_listings_bound

\* lines 1132-1137 with new_listings bound: save existing + new_listings when
\* new_listings is not empty.
HandlerSaves ==
    /\ pc = "handler"
    /\ HandlerReadsNewListings
    /\ IF new_listings # <<>> THEN SaveProgress(FinalData) ELSE NoSave
    /\ pc' = "exited"
    /\ UNCHANGED <<listings, range_i, batches, stats, collected,
                   detailed_listings, new_listings_bound, new_listings,
                   at_interrupt>>
    /\ UNCHANGED mainVars
    /\ UNCHANGED workerVars
    /\ UNCHANGED <<statVars, toolVars>>

\* line 1134 with new_listings never assigned (scrape_parallel raised before
\* the assignment of line 1103): UnboundLocalError, nothing is saved.
HandlerCrashes ==
    /\ pc = "handler"
    /\ ~HandlerReadsNewListings
    /\ pc' = "crashed"
    /\ UNCHANGED <<listings, range_i, batches, stats, collected,
                   detailed_listings, new_listings_bound, new_listings,
                   at_interrupt>>
    /\ NoSave
    /\ UNCHANGED mainVars
    /\ UNCHANGED workerVars
    /\ UNCHANGED <<statVars, toolVars>>

\* What a save_progress call that raises leaves in the file, lines 841-843:
\* open(filename, 'w') failed and the file is as it was, or the file was
\* opened (and so emptied) and json.dump failed.
FailedSaveLeaves(old) == {old, <<>>}

\* lines 908-914 when the periodic save_progress call raises (disk full, no
\* permission): the exception leaves the as_completed loop.
CollectSaveFails(b) ==
    /\ pc = "collect"
    /\ b \in Batches \ collected
    /\ wpc[b] = "done"
    /\ collected' = collected \cup {b}
    /\ detailed_listings' = Accumulate(detailed_listings, retval[b])
    /\ SaveDue(detailed_listings')
    /\ file' \in FailedSaveLeaves(file)
    /\ save_errors' = save_errors + 1
    /\ pc' = "save_unwinding"
    /\ UNCHANGED <<file_exists, saves, listings, range_i, batches, stats,
                   new_listings_bound, new_listings, at_interrupt>>
    /\ UNCHANGED mainVars
    /\ UNCHANGED workerVars
    /\ UNCHANGED <<statVars, toolVars>>

\* line 889 and lines 1101-1146: the executor waits for the submitted
\* batches, the exception leaves scrape_parallel, and main, which catches only
\* KeyboardInterrupt, ends with the exception.
SaveErrorEndsMain ==
    /\ pc = "save_unwinding"
    /\ \A b \in Batches : wpc[b] = "done"
    /\ pc' = "aborted"
    /\ UNCHANGED <<listings, range_i, batches, stats, collected,
                   detailed_listings, new_listings_bound, new_listings,
                   at_interrupt>>
    /\ NoSave
    /\ UNCHANGED mainVars
    /\ UNCHANGED workerVars
    /\ UNCHANGED <<statVars, toolVars>>

\* ---------------------------------------------------------- specifications
Next ==
    \/ LoadExisting
    \/ CreateBatch
    \/ Dispatch
    \/ \E b \in Batches : WorkerStart(b)
    \/ \E b \in Batches : WorkerStartFails(b)
    \/ \E b \in Batches : ItemMultiUnit(b)
    \/ \E b \in Batches : ItemSingle(b)
    \/ \E b \in Batches : ItemNone(b)
    \/ \E b \in Batches : ItemRaises(b)
    \/ \E b \in Batches : BatchFinally(b)
    \/ \E b \in Batches : Collect(b)
    \/ ScrapeReturns
    \/ FinalSave
    \/ InterruptCollect
    \/ ExecutorExit
    \/ InterruptFinal
    \/ HandlerSaves
    \/ HandlerCrashes

Spec == Init /\ [][Next]_vars

\* The run with a checkpoint file that cannot always be written.
NextDisk ==
    \/ Next
    \/ \E b \in Batches : CollectSaveFails(b)
    \/ SaveErrorEndsMain

SpecDisk == Init /\ [][NextDisk]_vars

\* The checkpoint files an earlier run of listing 1 may have left: its two
\* unit records when it was a multi-unit listing, its enriched record, or its
\* original record when it failed.
PriorFilesRerun ==
    {<<MergeUnit(1, 1, PriorRun), MergeUnit(1, 2, PriorRun)>>,
     <<MergeSingle(1, PriorRun)>>,
     <<Original(1)>>}

\* The run that follows an earlier run of the same catalogue.
InitRerun ==
    /\ pc = "start"
    /\ force_rescrape \in BOOLEAN
    /\ file_exists = TRUE
    /\ file \in PriorFilesRerun
    /\ file0 = file
    /\ existing = <<>>
    /\ \E n \in 1..MaxRerunListings : listings = Catalogue(n)
    /\ num_workers \in 1..MaxWorkers
    /\ batch_save \in 1..MaxBatchSave
    /\ range_i = 0
    /\ batches = <<>>
    /\ stats = ZeroStats
    /\ wpc = <<>> /\ driver = <<>> /\ quit_calls = <<>> /\ widx = <<>>
    /\ results = <<>> /\ outcomes = <<>> /\ retval = <<>>
    /\ collected = {}
    /\ detailed_listings = <<>>
    /\ new_listings_bound = FALSE
    /\ new_listings = <<>>
    /\ saves = 0
    /\ save_errors = 0
    /\ at_interrupt = {}
    /\ StatIdle
    /\ ToolIdle

SpecRerun == InitRerun /\ [][Next]_vars

SpecFresh == InitFresh /\ [][Next]_vars

\* Batch creation alone, as a function of the backlog and the worker count.
InitPartition ==
    /\ pc = "partition"
    /\ force_rescrape = FALSE
    /\ file_exists = FALSE
    /\ file = <<>>
    /\ file0 = <<>>
    /\ existing = <<>>
    /\ \E n \in 0..MaxPartListings : listings = Catalogue(n)
    /\ num_workers \in 1..MaxPartWorkers
    /\ batch_save = 1
    /\ range_i = 0
    /\ batches = <<>>
    /\ stats = ZeroStats
    /\ wpc = <<>> /\ driver = <<>> /\ quit_calls = <<>> /\ widx = <<>>
    /\ results = <<>> /\ outcomes = <<>> /\ retval = <<>>
    /\ collected = {}
    /\ detailed_listings = <<>>
    /\ new_listings_bound = FALSE
    /\ new_listings = <<>>
    /\ saves = 0
    /\ save_errors = 0
    /\ at_interrupt = {}
    /\ StatIdle
    /\ ToolIdle

NextPartition == CreateBatch \/ Dispatch

SpecPartition == InitPartition /\ [][NextPartition]_vars

\* ------------------------------------------- statistics under stats_lock
\* The batch workers and the display thread of the statistics specification.
StatWorkers == 1..MaxStatWorkers

\* How an item can end: in the details scraper (lines 730-756) and, with
\* skipped, in the downloader (download_raw_html_parallel.py lines 233-247).
Kinds == IF downloader THEN {"success", "failed", "skipped"}
         ELSE {"success", "failed"}

\* Mutant of CanAcquire: the lock does not exclude anyone.
CanAcquireAlways(holders) == TRUE

\* `with stats_lock:` is entered when no thread holds the lock.
CanAcquire(holders) == holders = {}

\* Mutant of DisplayCanAcquire: the display reads without taking the lock.
DisplayReadsUnlocked(holders) == TRUE

\* print_live_status line 76: `with stats_lock:`.
DisplayCanAcquire(holders) == CanAcquire(holders)

InitStats ==
    /\ pc = "stats"
    /\ force_rescrape = FALSE
    /\ file_exists = FALSE
    /\ file = <<>>
    /\ file0 = <<>>
    /\ existing = <<>>
    /\ listings = <<>>
    /\ num_workers = MaxStatWorkers
    /\ batch_save = 1
    /\ range_i = 0
    /\ batches = <<>>
    /\ stats = ZeroStats
    /\ wpc = <<>> /\ driver = <<>> /\ quit_calls = <<>> /\ widx = <<>>
    /\ results = <<>> /\ outcomes = <<>> /\ retval = <<>>
    /\ collected = {}
    /\ detailed_listings = <<>>
    /\ new_listings_bound = FALSE
    /\ new_listings = <<>>
    /\ saves = 0
    /\ save_errors = 0
    /\ at_interrupt = {}
    /\ downloader \in BOOLEAN
    /\ lock_holders = {}
    /\ spc = [t \in StatWorkers \cup {DisplayThread} |-> "idle"]
    /\ tmp = [t \in StatWorkers \cup {DisplayThread} |-> 0]
    /\ kind = [t \in StatWorkers |-> "success"]
    /\ left = [t \in StatWorkers |-> MaxStatItems]
    /\ performed = [k \in {"success", "failed", "skipped"} |-> 0]
    /\ shown = ZeroStats
    /\ ToolIdle

statFrame ==
    UNCHANGED runVarsButStats /\ UNCHANGED downloader /\ UNCHANGED toolVars

\* An item of worker t has ended as k; the worker enters the
\* `with stats_lock:` block that counts it.
BeginUpdate(t) ==
    /\ spc[t] = "idle"
    /\ left[t] > 0
    /\ CanAcquire(lock_holders)
    /\ lock_holders' = lock_holders \cup {t}
    /\ \E k \in Kinds : kind' = [kind EXCEPT ![t] = k]
    /\ spc' = [spc EXCEPT ![t] = "ld_completed"]
    /\ UNCHANGED <<stats, tmp, left, performed, shown>>
    /\ statFrame

\* stats['completed'] += 1, the read.
LoadCompleted(t) ==
    /\ spc[t] = "ld_completed"
    /\ tmp' = [tmp EXCEPT ![t] = stats.completed]
    /\ spc' = [spc EXCEPT ![t] = "st_completed"]
    /\ UNCHANGED <<stats, lock_holders, kind, left, performed, shown>>
    /\ statFrame

\* stats['completed'] += 1, the write.
StoreCompleted(t) ==
    /\ spc[t] = "st_completed"
    /\ stats' = [stats EXCEPT !.completed = tmp[t] + 1]
    /\ spc' = [spc EXCEPT ![t] = "ld_kind"]
    /\ UNCHANGED <<tmp, lock_holders, kind, left, performed, shown>>
    /\ statFrame

\* stats['success'] += 1 (or 'failed', or 'skipped'), the read.
LoadKind(t) ==
    /\ spc[t] = "ld_kind"
    /\ tmp' = [tmp EXCEPT ![t] = stats[kind[t]]]
    /\ spc' = [spc EXCEPT ![t] = "st_kind"]
    /\ UNCHANGED <<stats, lock_holders, kind, left, performed, shown>>
    /\ statFrame

\* stats['success'] += 1 (or 'failed', or 'skipped'), the write.
StoreKind(t) ==
    /\ spc[t] = "st_kind"
    /\ stats' = [stats EXCEPT ![kind[t]] = tmp[t] + 1]
    /\ spc' = [spc EXCEPT ![t] = "release"]
    /\ UNCHANGED <<tmp, lock_holders, kind, left, performed, shown>>
    /\ statFrame

\* The `with` block ends: the lock is released and the item is counted.
EndUpdate(t) ==
    /\ spc[t] = "release"
    /\ lock_holders' = lock_holders \ {t}
    /\ left' = [left EXCEPT ![t] = @ - 1]
    /\ performed' = [performed EXCEPT ![kind[t]] = @ + 1]
    /\ spc' = [spc EXCEPT ![t] = "idle"]
    /\ UNCHANGED <<stats, tmp, kind, shown>>
    /\ statFrame

\* print_live_status line 76: the display thread takes the lock.
DisplayAcquire ==
    /\ spc[DisplayThread] = "idle"
    /\ DisplayCanAcquire(lock_holders)
    /\ lock_holders' = lock_holders \cup {DisplayThread}
    /\ spc' = [spc EXCEPT ![DisplayThread] = "rd_completed"]
    /\ UNCHANGED <<stats, tmp, kind, left, performed, shown>>
    /\ statFrame

\* lines 78-83: stats['completed'] is read.
DisplayReadCompleted ==
    /\ spc[DisplayThread] = "rd_completed"
    /\ shown' = [shown EXCEPT !.completed = stats.completed]
    /\ spc' = [spc EXCEPT ![DisplayThread] = "rd_kinds"]
    /\ UNCHANGED <<stats, tmp, lock_holders, kind, left, performed>>
    /\ statFrame

\* lines 83-103: success, failed (and skipped) are read.
DisplayReadKinds ==
    /\ spc[DisplayThread] = "rd_kinds"
    /\ shown' = [shown EXCEPT !.success = stats.success,
                              !.failed = stats.failed,
                              !.skipped = stats.skipped]
    /\ spc' = [spc EXCEPT ![DisplayThread] = "release"]
    /\ UNCHANGED <<stats, tmp, lock_holders, kind, left, performed>>
    /\ statFrame

\* The `with` block of print_live_status ends.
DisplayRelease ==
    /\ spc[DisplayThread] = "release"
    /\ lock_holders' = lock_holders \ {DisplayThread}
    /\ spc' = [spc EXCEPT ![DisplayThread] = "idle"]
    /\ UNCHANGED <<stats, tmp, kind, left, performed, shown>>
    /\ statFrame

NextStats ==
    \/ \E t \in StatWorkers : BeginUpdate(t)
    \/ \E t \in StatWorkers : LoadCompleted(t)
    \/ \E t \in StatWorkers : StoreCompleted(t)
    \/ \E t \in StatWorkers : LoadKind(t)
    \/ \E t \in StatWorkers : StoreKind(t)
    \/ \E t \in StatWorkers : EndUpdate(t)
    \/ DisplayAcquire
    \/ DisplayReadCompleted
    \/ DisplayReadKinds
    \/ DisplayRelease

SpecStats == InitStats /\ [][NextStats]_vars

\* ------------------------------------------------- deduplicate_database.py
\* A scraped_at string is a sequence of digits, <<>> being '' (the default of
\* x.get('scraped_at', '')); Python compares strings lexicographically.
RECURSIVE LexLess(_, _)
LexLess(a, b) ==
    IF b = <<>> THEN FALSE
    ELSE IF a = <<>> THEN TRUE
    ELSE IF Head(a) < Head(b) THEN TRUE
    ELSE IF Head(a) > Head(b) THEN FALSE
    ELSE LexLess(Tail(a), Tail(b))

\* The scraped_at strings '', '11' and '2' of the entries.
Stamps == {<<>>, <<1, 1>>, <<2>>}

\* The entries a database can hold: two ref_ids, and a price by which two
\* entries of one ref_id and one scraped_at still differ.
Entries == [ref_id : {1, 2}, scraped_at : Stamps, price : {1, 2}]

Databases == UNION {[1..n -> Entries] : n \in 0..MaxDedupeLen}

\* key=lambda x: x.get('scraped_at', '')
SortKey(x) == x.scraped_at

\* lines 26-29: one pass of the grouping loop; the dict keeps the order in
\* which the ref_ids were first seen.
GroupEntry(g, entry) ==
    IF \E k \in 1..Len(g) : g[k].ref_id = entry.ref_id
      THEN [k \in 1..Len(g) |->
              IF g[k].ref_id = entry.ref_id
                THEN [g[k] EXCEPT !.entries = Append(@, entry)]
                ELSE g[k]]
      ELSE Append(g, [ref_id |-> entry.ref_id, entries |-> <<entry>>])

\* The number of entries the grouping loop has handled.
RECURSIVE GroupedCount(_)
GroupedCount(g) ==
    IF g = <<>> THEN 0 ELSE Len(Head(g).entries) + GroupedCount(Tail(g))

\* sorted(..., reverse=True) is stable: x goes behind the entries whose key is
\* not smaller than its own.
RECURSIVE InsertRecentFirst(_, _)
InsertRecentFirst(sorted, x) ==
    IF sorted = <<>> THEN <<x>>
    ELSE IF LexLess(SortKey(Head(sorted)), SortKey(x)) THEN <<x>> \o sorted
    ELSE <<Head(sorted)>> \o InsertRecentFirst(Tail(sorted), x)

\* line 54: sorted(entries, key=..., reverse=True)
RECURSIVE SortedRecentFirst(_)
SortedRecentFirst(entries) ==
    IF entries = <<>> THEN <<>>
    ELSE InsertRecentFirst(SortedRecentFirst(SubSeq(entries, 1, Len(entries) - 1)),
                           entries[Len(entries)])

\* Mutant of MostRecent: the first entry of the group is kept.
FirstOfGroup(entries) == entries[1]

\* lines 48-56: the entry kept for a group.
MostRecent(entries) ==
    IF Len(entries) = 1 THEN entries[1] ELSE SortedRecentFirst(entries)[1]

\* deduplicate_database as a function of the entries loaded: the output list.
RECURSIVE GroupAll(_)
GroupAll(data) ==
    IF data = <<>> THEN <<>>
    ELSE GroupEntry(GroupAll(SubSeq(data, 1, Len(data) - 1)), data[Len(data)])

DeduplicateDatabase(data) ==
    LET g == GroupAll(data) IN [k \in 1..Len(g) |-> MostRecent(g[k].entries)]

runIdle ==
    /\ force_rescrape = FALSE
    /\ file0 = <<>>
    /\ existing = <<>>
    /\ listings = <<>>
    /\ num_workers = 1
    /\ batch_save = 1
    /\ range_i = 0
    /\ batches = <<>>
    /\ stats = ZeroStats
    /\ wpc = <<>> /\ driver = <<>> /\ quit_calls = <<>> /\ widx = <<>>
    /\ results = <<>> /\ outcomes = <<>> /\ retval = <<>>
    /\ collected = {}
    /\ detailed_listings = <<>>
    /\ new_listings_bound = FALSE
    /\ new_listings = <<>>
    /\ saves = 0
    /\ save_errors = 0
    /\ at_interrupt = {}

\* lines 17-18: the database file is loaded.
InitDedupe ==
    /\ pc = "dedupe_group"
    /\ all_data \in Databases
    /\ file = all_data
    /\ file_exists = TRUE
    /\ grouped = <<>>
    /\ deduplicated = <<>>
    /\ removed = 0
    /\ offline = FALSE /\ page = NoPage /\ extracted_units = <<>>
    /\ parking_spots = None
    /\ building_type = NoneText
    /\ MergeIdle
    /\ runIdle
    /\ StatIdle

dedupeFrame ==
    UNCHANGED <<force_rescrape, file0, existing, listings, num_workers,
                batch_save, range_i, batches, stats, collected,
                detailed_listings, new_listings_bound, new_listings, saves,
                save_errors, at_interrupt>>
    /\ UNCHANGED workerVars
    /\ UNCHANGED statVars
    /\ UNCHANGED <<extractVars, mergeVars, displayVars, lockVars, fetchVars>>

\* lines 25-29: one entry is put into its group.
DedupeGroup ==
    /\ pc = "dedupe_group"
    /\ GroupedCount(grouped) < Len(all_data)
    /\ grouped' = GroupEntry(grouped, all_data[GroupedCount(grouped) + 1])
    /\ UNCHANGED <<pc, all_data, deduplicated, removed, file, file_exists>>
    /\ dedupeFrame

\* lines 32-45: the duplicates are reported; deduplicated = [], removed = 0.
DedupeReport ==
    /\ pc = "dedupe_group"
    /\ GroupedCount(grouped) = Len(all_data)
    /\ deduplicated' = <<>>
    /\ removed' = 0
    /\ pc' = "dedupe_keep"
    /\ UNCHANGED <<all_data, grouped, file, file_exists>>
    /\ dedupeFrame

\* lines 47-57: one group is handled.
DedupeKeep ==
    /\ pc = "dedupe_keep"
    /\ Len(deduplicated) < Len(grouped)
    /\ LET entries == grouped[Len(deduplicated) + 1].entries IN
         /\ deduplicated' = Append(deduplicated, MostRecent(entries))
         /\ removed' = IF Len(entries) = 1 THEN removed
                       ELSE removed + Len(entries) - 1
    /\ UNCHANGED <<pc, all_data, grouped, file, file_exists>>
    /\ dedupeFrame

\* lines 68-69: the deduplicated list replaces the database file.
DedupeWrite ==
    /\ pc = "dedupe_keep"
    /\ Len(deduplicated) = Len(grouped)
    /\ file' = deduplicated
    /\ pc' = "deduped"
    /\ UNCHANGED <<all_data, grouped, deduplicated, removed, file_exists>>
    /\ dedupeFrame

NextDedupe == DedupeGroup \/ DedupeReport \/ DedupeKeep \/ DedupeWrite

SpecDedupe == InitDedupe /\ [][NextDedupe]_vars

\* ------------------------------------------------ extract_listing_details
\* A page is: the number of unit cards under .units-wrap; the cards whose
\* extraction does not raise; whether the page has an h1 with the building
\* address; and the words of its text. The text sits in one element, so the
\* element found by an XPath text test and its parent both have this text.
Vocabulary ==
    {"2", "800", "Parking", "parking", "Spots", "spots", "stalls", "two"}

Texts == UNION {[1..n -> Vocabulary] : n \in 0..MaxTextLen}

\* What the bedroom expressions find (lines 294-305, 448-470; offline lines
\* 172-176) and what the price expression finds on a unit card (line 332).
BedsFound == {None, 1}
PriceFound == {None, 900}

UnitPages ==
    UNION {[cards : {c}, ok : SUBSET (1..c), h1 : BOOLEAN, text : {<<>>},
            beds : BedsFound, price : PriceFound, building : {FALSE}] :
             c \in 2..MaxCards}

\* building: the page text holds one of building_keywords (line 650).
TextPages ==
    [cards : {0, 1}, ok : {{}}, h1 : {FALSE}, text : Texts,
     beds : BedsFound, price : {None}, building : BOOLEAN]

\* str.lower() of a word.
Lower(t) ==
    IF t = "Parking" THEN "parking" ELSE IF t = "Spots" THEN "spots" ELSE t

\* The words \d+ matches, and int() of them.
Num == {"2", "800"}
NumVal(t) == IF t = "2" THEN 2 ELSE 800

\* The words that start with spot, with stall, and so on.
SpotWords == {"spot", "spots"}
StallWords == {"stall", "stalls"}
SpaceWords == {"space", "spaces"}

\* A regular expression over whole words: the classes of the words it matches
\* in sequence, and which of them is its group 1 (0: it has no group).
\* parking_patterns, scrape_details_parallel.py lines 576-585.
ParkingPatterns ==
    << [toks |-> <<Num, SpotWords, {"per"}, {"unit"}>>, group |-> 1],
       [toks |-> <<{"parking"}, {"spots"}, Num, SpotWords>>, group |-> 3],
       [toks |-> <<{"total"}, {"property"}, {"parking"}, {"spots"}, Num>>,
        group |-> 5],
       [toks |-> <<Num, {"parking"},
                   SpotWords \cup StallWords \cup SpaceWords>>, group |-> 1],
       [toks |-> <<Num,
                   {"titled", "underground", "surface", "assigned", "reserved"},
                   {"parking"}>>, group |-> 1],
       [toks |-> <<{"two", "three", "four", "five"}, {"parking"}, StallWords>>,
        group |-> 0],
       [toks |-> <<{"parking"}, Num>>, group |-> 2],
       [toks |-> <<Num, StallWords, {"included"}>>, group |-> 1] >>

\* parking_patterns, scrape_offline_parallel.py lines 110-118.
OfflineParkingPatterns ==
    << ParkingPatterns[1], ParkingPatterns[2], ParkingPatterns[3],
       ParkingPatterns[4], ParkingPatterns[5], ParkingPatterns[7],
       ParkingPatterns[8] >>

\* r'(\d+)\s*spot', line 500.
SpotsPattern == [toks |-> <<Num, SpotWords>>, group |-> 1]

\* re.search(pattern, text) on the lowered text: the position of the leftmost
\* match, 0 when there is none.
FirstMatch(pat, text) ==
    LET n == Len(pat.toks)
        at == {i \in 1..(Len(text) - n + 1) :
                 \A j \in 1..n : Lower(text[i + j - 1]) \in pat.toks[j]}
    IN IF at = {} THEN 0 ELSE CHOOSE i \in at : \A j \in at : i <= j

\* int(match.group(1)) of a match at position m.
GroupValue(pat, text, m) == NumVal(text[m + pat.group - 1])

\* `not details['parking_spots']` is true for None and for 0.
Truthy(n) == n # None /\ n # 0

\* The element of line 495 exists: the text holds 'Parking Spots' or
\* 'parking spots'.
HasParkingSpotsElement(text) ==
    \E i \in 1..(Len(text) - 1) :
        \/ text[i] = "Parking" /\ text[i + 1] = "Spots"
        \/ text[i] = "parking" /\ text[i + 1] = "spots"

\* numbers = re.findall(r'\d+', text); int(numbers[0]), lines 511-513.
FirstNumber(text) ==
    LET at == {i \in 1..Len(text) : text[i] \in Num}
    IN IF at = {} THEN None
       ELSE NumVal(text[CHOOSE i \in at : \A j \in at : i <= j])

\* lines 492-516: the Parking Information section, and when its element is
\* missing the first number of the first element that mentions parking.
StructuralParking(text) ==
    IF HasParkingSpotsElement(text)
      THEN LET m == FirstMatch(SpotsPattern, text)
           IN IF m = 0 THEN None ELSE GroupValue(SpotsPattern, text, m)
      ELSE IF \E i \in 1..Len(text) : text[i] \in {"Parking", "parking"}
             THEN FirstNumber(text)
             ELSE None

\* line 591: if 0 < parking_num < 100
Plausible(n) == 0 < n /\ n < 100

\* lines 587-595: the loop over the patterns from pattern k on. A match of a
\* pattern without group 1 makes match.group(1) raise IndexError.
RECURSIVE PatternLoop(_, _, _)
PatternLoop(patterns, k, text) ==
    IF k > Len(patterns) THEN [spots |-> None, raised |-> FALSE]
    ELSE LET m == FirstMatch(patterns[k], text) IN
         IF m = 0 THEN PatternLoop(patterns, k + 1, text)
         ELSE IF patterns[k].group = 0 THEN [spots |-> None, raised |-> TRUE]
         ELSE IF Plausible(GroupValue(patterns[k], text, m))
                THEN [spots |-> GroupValue(patterns[k], text, m),
                      raised |-> FALSE]
                ELSE PatternLoop(patterns, k + 1, text)

\* word_numbers, lines 599-602, in the dict's order.
WordNumbers ==
    << [word |-> "one", num |-> 1], [word |-> "two", num |-> 2],
       [word |-> "three", num |-> 3], [word |-> "four", num |-> 4],
       [word |-> "five", num |-> 5], [word |-> "six", num |-> 6],
       [word |-> "seven", num |-> 7], [word |-> "eight", num |-> 8] >>

\* f'{word} parking' in search_text or f'{word} stall' in search_text
WordFound(word, text) ==
    \E i \in 1..(Len(text) - 1) :
        /\ Lower(text[i]) = word
        /\ Lower(text[i + 1]) \in {"parking"} \cup StallWords

\* lines 603-606: the first word of word_numbers found in the text.
WordParking(text) ==
    LET found == {k \in 1..Len(WordNumbers) : WordFound(WordNumbers[k].word, text)}
    IN IF found = {} THEN None
       ELSE WordNumbers[CHOOSE k \in found : \A j \in found : k <= j].num

\* The listing the extractor is called for.
ExtractRef == 1

\* lines 259-264: the h1 text, or 'Unknown'.
BuildingAddress(pg) == IF pg.h1 THEN "h1 text" ELSE "Unknown"

\* The link of a Listing Reference, and the url it is opened with.
LinkOf(i) == <<"link", i>>

\* unit_details, lines 269-288, with the beds and the price found on the
\* card (lines 300-334).
UnitDetails(i, idx, pg) ==
    [ref_id |-> <<i, idx>>, parent_ref_id |-> i, url |-> LinkOf(i),
     building_address |-> BuildingAddress(pg), is_multi_unit |-> TRUE,
     beds |-> pg.beds, price |-> pg.price, scraped_at |-> ThisRun]

\* lines 267-364: the loop over the first k cards; a card whose extraction
\* raises is skipped.
RECURSIVE UnitList(_, _, _)
UnitList(i, k, pg) ==
    IF k = 0 THEN <<>>
    ELSE UnitList(i, k - 1, pg)
           \o (IF k \in pg.ok THEN <<UnitDetails(i, k, pg)>> ELSE <<>>)

\* The keys of unit_details, lines 269-288, that are kept here.
UnitKeys ==
    {"ref_id", "parent_ref_id", "url", "building_address", "is_multi_unit",
     "beds", "price", "scraped_at"}

\* The keys of the dict details, lines 417-434 (offline: lines 95-105, which
\* have no url and no building_type); utilities_included, amenities and the
\* other text fields are created in the same literal and are left out here.
DetailsKeys(off) ==
    {"ref_id", "scraped_at", "is_multi_unit", "beds", "parking_spots"}
        \cup (IF off THEN {} ELSE {"url", "building_type"})

\* The dict details with the values the extraction stored in it.
DetailsDict(off, i, b, p, t) ==
    LET d == [ref_id |-> <<i, 0>>, url |-> LinkOf(i), scraped_at |-> ThisRun,
              is_multi_unit |-> FALSE, beds |-> b, parking_spots |-> p,
              building_type |-> t]
    IN [k \in DetailsKeys(off) |-> d[k]]

\* A threshold that sends a page with a single card to the multi-unit path.
IsMultiUnitPageFromOne(pg) == pg.cards >= 1

\* lines 405-406: a page is a multi-unit listing with more than one card.
IsMultiUnitPage(pg) == pg.cards > 1

\* lines 648-655: the first of building_keywords in the page text, titled.
BuildingType(pg) == IF pg.building THEN "Apartment" ELSE NoneText

\* lines 607-608: the handler of the parking block passes, and the
\* extraction goes on with the amenities (line 610).
ParkingExcept == "later_fields"

InitExtract ==
    /\ pc = "extract"
    /\ offline \in BOOLEAN
    /\ page \in UnitPages \cup TextPages
    /\ offline => page.cards = 0
    /\ extracted_units = <<>>
    /\ parking_spots = None
    /\ building_type = NoneText
    /\ MergeIdle
    /\ all_data = <<>> /\ grouped = <<>> /\ deduplicated = <<>>
    /\ removed = 0
    /\ file = <<>>
    /\ file_exists = FALSE
    /\ runIdle
    /\ StatIdle

extractFrame ==
    UNCHANGED <<force_rescrape, file_exists, file, file0, existing, listings,
                num_workers, batch_save, range_i, batches, stats, collected,
                detailed_listings, new_listings_bound, new_listings, saves,
                save_errors, at_interrupt>>
    /\ UNCHANGED workerVars
    /\ UNCHANGED statVars
    /\ UNCHANGED dedupeVars
    /\ UNCHANGED <<mergeVars, displayVars, lockVars, fetchVars>>
    /\ UNCHANGED <<offline, page>>

\* lines 401-434: more than one unit card sends the page to the multi-unit
\* path; otherwise details is created with parking_spots None.
ExtractBegin ==
    /\ pc = "extract"
    /\ pc' = IF ~offline /\ IsMultiUnitPage(page) THEN "multi_unit"
             ELSE "parking_section"
    /\ parking_spots' = None
    /\ building_type' = NoneText
    /\ UNCHANGED extracted_units
    /\ extractFrame

\* extract_multi_unit_details, lines 241-370, returned at line 409.
ExtractMultiUnit ==
    /\ pc = "multi_unit"
    /\ extracted_units' =
          UnitList(ExtractRef, page.cards, page)
    /\ pc' = IF extracted_units' # <<>> THEN "returned_units"
             ELSE "returned_none"
    /\ UNCHANGED <<parking_spots, building_type>>
    /\ extractFrame

\* lines 492-516 (the offline extractor has no such step).
ParkingSection ==
    /\ pc = "parking_section"
    /\ parking_spots' = IF offline THEN parking_spots
                        ELSE StructuralParking(page.text)
    /\ pc' = "parking_patterns"
    /\ UNCHANGED <<extracted_units, building_type>>
    /\ extractFrame

\* lines 570-596 (offline: lines 107-126): the loop over the patterns,
\* entered only when nothing is stored yet; an exception raised in it is
\* swallowed at line 607 and ends the parking extraction.
ParkingPatternLoop ==
    /\ pc = "parking_patterns"
    /\ IF Truthy(parking_spots)
         THEN /\ pc' = "later_fields"
              /\ UNCHANGED parking_spots
         ELSE LET r == PatternLoop(IF offline THEN OfflineParkingPatterns
                                   ELSE ParkingPatterns, 1, page.text)
              IN /\ parking_spots' = IF r.spots # None THEN r.spots
                                     ELSE parking_spots
                 /\ pc' = IF r.raised THEN ParkingExcept
                          ELSE "parking_words"
    /\ UNCHANGED <<extracted_units, building_type>>
    /\ extractFrame

\* lines 597-606 (offline: lines 128-137): the spelled-out numbers.
ParkingWords ==
    /\ pc = "parking_words"
    /\ parking_spots' =
          IF ~Truthy(parking_spots) /\ WordParking(page.text) # None
            THEN WordParking(page.text)
            ELSE parking_spots
    /\ pc' = "later_fields"
    /\ UNCHANGED <<extracted_units, building_type>>
    /\ extractFrame

\* lines 610-661 (offline: lines 138-202): the fields extracted after the
\* parking, of which the building type is kept, and return details.
LaterFields ==
    /\ pc = "later_fields"
    /\ building_type' = IF offline THEN building_type ELSE BuildingType(page)
    /\ pc' = "returned_details"
    /\ UNCHANGED <<extracted_units, parking_spots>>
    /\ extractFrame

\* The value extract_listing_details has returned.
Returned == pc \in {"returned_details", "returned_units", "returned_none"}

\* lines 724-732: the worker counts a returned list as a multi-unit listing.
CountedAsMultiUnit == pc = "returned_units"

\* The dict returned at line 661 (offline: line 202).
Details ==
    DetailsDict(offline, ExtractRef, page.beds, parking_spots, building_type)

NextExtract ==
    \/ ExtractBegin
    \/ ExtractMultiUnit
    \/ ParkingSection
    \/ ParkingPatternLoop
    \/ ParkingWords
    \/ LaterFields

SpecExtract == InitExtract /\ [][NextExtract]_vars

\* ------------------------------------------------- the merge of the worker
\* A Listing Reference of the catalogue: the listing API's record, of which
\* the identifier, the link, the price and the bedroom count are kept here;
\* the API leaves price or beds null for some listings.
ListingRecord(i, b, p) ==
    [ref_id |-> <<i, 0>>, link |-> LinkOf(i), price |-> p, beds |-> b]

ListingRefs == {ListingRecord(ExtractRef, b, p) : b \in {None, 2},
                                                   p \in {None, 1500}}

\* What the extractors return: a dict (lines 661; offline, line 202), a
\* non-empty list of unit dicts (line 366), or None (lines 366, 370, 676).
ReturnValues ==
    {[tag |-> "dict", val |-> DetailsDict(off, ExtractRef, b, p, t)] :
        off \in BOOLEAN, b \in BedsFound, p \in {None, 2},
        t \in {NoneText, "Apartment"}}
    \cup {[tag |-> "list", val |-> UnitList(ExtractRef, pg.cards, pg)] :
            pg \in {q \in UnitPages : q.ok # {}}}
    \cup {[tag |-> "none", val |-> <<>>]}

\* A merge in which the original reference wins over the extracted record.
MergeOriginalWins(l, d) ==
    [k \in DOMAIN l \cup DOMAIN d |-> IF k \in DOMAIN l THEN l[k] ELSE d[k]]

\* {**listing, **details}, lines 728 and 737 (offline: line 227).
Merge(l, d) ==
    [k \in DOMAIN l \cup DOMAIN d |-> IF k \in DOMAIN d THEN d[k] ELSE l[k]]

InitMerge ==
    /\ pc = "merge"
    /\ listing \in ListingRefs
    /\ details \in ReturnValues
    /\ merged = <<>>
    /\ dpc = "none" /\ late_render = FALSE
    /\ FetchIdle
    /\ lthread = <<>>
    /\ offline = FALSE /\ page = NoPage /\ extracted_units = <<>>
    /\ parking_spots = None
    /\ building_type = NoneText
    /\ all_data = <<>> /\ grouped = <<>> /\ deduplicated = <<>>
    /\ removed = 0
    /\ file = <<>>
    /\ file_exists = FALSE
    /\ runIdle
    /\ StatIdle

mergeFrame ==
    UNCHANGED <<force_rescrape, file_exists, file, file0, existing, listings,
                num_workers, batch_save, range_i, batches, collected,
                detailed_listings, new_listings_bound, new_listings, saves,
                save_errors, at_interrupt>>
    /\ UNCHANGED workerVars
    /\ UNCHANGED statVars
    /\ UNCHANGED dedupeVars
    /\ UNCHANGED <<extractVars, displayVars, lockVars, fetchVars>>
    /\ UNCHANGED <<listing, details>>

\* lines 724-734: every unit of a returned list is merged onto the listing.
MergeUnits ==
    /\ pc = "merge"
    /\ details.tag = "list"
    /\ merged' = [k \in 1..Len(details.val) |-> Merge(listing, details.val[k])]
    /\ stats' = [stats EXCEPT
                   !.completed = @ + 1, !.success = @ + 1,
                   !.multi_unit_found = @ + 1,
                   !.total_units_found = @ + Len(details.val)]
    /\ pc' = "merged"
    /\ mergeFrame

\* lines 735-741 (offline: lines 225-230): a returned dict is merged.
MergeDetails ==
    /\ pc = "merge"
    /\ details.tag = "dict"
    /\ merged' = <<Merge(listing, details.val)>>
    /\ stats' = [stats EXCEPT !.completed = @ + 1, !.success = @ + 1]
    /\ pc' = "merged"
    /\ mergeFrame

\* lines 742-746 (offline: lines 231-235): nothing was returned.
KeepOriginal ==
    /\ pc = "merge"
    /\ details.tag = "none"
    /\ merged' = <<listing>>
    /\ stats' = FailedItemStats(stats)
    /\ pc' = "merged"
    /\ mergeFrame

NextMerge ==
    \/ MergeUnits
    \/ MergeDetails
    \/ KeepOriginal

SpecMerge == InitMerge /\ [][NextMerge]_vars

\* ------------------------------------------------- the thread update_display
\* lines 916-917: stop_updates is set when the loop over as_completed has
\* ended, in the step in which scrape_parallel returns.
StopUpdatesIsSet == new_listings_bound

\* The orchestrator has left the loop of lines 908-914: every batch was
\* collected, or KeyboardInterrupt was raised in it.
RunStopped ==
    pc \in {"final", "done", "unwinding", "handler", "exited", "crashed"}

\* The process, and with it the daemon thread, is still there.
ProcessAlive == pc \notin {"done", "exited", "crashed"}

displayFrame ==
    UNCHANGED <<runVars, statVars, dedupeVars, extractVars, mergeVars,
                lockVars, fetchVars>>

\* lines 904-905: the thread is started once the batches are submitted.
DisplayStart ==
    /\ dpc = "none"
    /\ pc \notin {"start", "partition"}
    /\ ProcessAlive
    /\ dpc' = "check"
    /\ UNCHANGED late_render
    /\ displayFrame

\* line 900: while not stop_updates.is_set()
DisplayCheck ==
    /\ dpc = "check"
    /\ ProcessAlive
    /\ dpc' = IF StopUpdatesIsSet THEN "ended" ELSE "sleep"
    /\ UNCHANGED late_render
    /\ displayFrame

\* lines 901-902: the sleep is over and print_live_status renders the status.
DisplayRender ==
    /\ dpc = "sleep"
    /\ ProcessAlive
    /\ late_render' = (late_render \/ RunStopped)
    /\ dpc' = "check"
    /\ displayFrame

NextDisplay ==
    \/ Next
    \/ DisplayStart
    \/ DisplayCheck
    \/ DisplayRender

SpecDisplay == Init /\ [][NextDisplay]_vars

\* ------------------------------------------------ stats_lock and file_lock
\* The orchestrator's thread; the batch workers are StatWorkers and the
\* display thread is DisplayThread.
MainThread == MaxStatWorkers + 1

LockThreads == StatWorkers \cup {DisplayThread, MainThread}

\* The lock a `with` block takes: save_progress takes file_lock (line 841),
\* every other block stats_lock (lines 76, 159, 706, 730-754, 776, 786).
LockOf(block) == IF block = "save_progress" THEN "file_lock" ELSE "stats_lock"

\* A worker that writes the checkpoint while it counts an item.
CallsInsideSaving(block) ==
    IF block = "count_item" THEN "save_progress" ELSE "none"

\* The lock-taking function a block calls while it holds its lock: none of
\* the blocks calls one.
CallsInside(block) == "none"

RECURSIVE Repeat(_, _)
Repeat(sq, n) == IF n = 0 THEN <<>> ELSE sq \o Repeat(sq, n - 1)

\* The lock blocks a thread goes through, in order. A worker (lines 699-778)
\* counts itself active, for every item logs an error or not and counts the
\* item, and ends in the finally block; the display thread calls
\* print_live_status again and again; the orchestrator (lines 886-921,
\* 1110-1120) prints the status, saves when a checkpoint is due, prints the
\* final status, saves, and prints the debug summary in debug mode.
Program(t) ==
    IF t \in StatWorkers
      THEN <<"count_active">>
             \o Repeat(<<"log_error", "count_item">>, MaxStatItems)
             \o <<"finally">>
    ELSE IF t = DisplayThread THEN <<"print_live_status">>
    ELSE <<"print_live_status">> \o Repeat(<<"save_progress">>, MaxStatItems)
           \o <<"print_live_status", "save_progress", "debug_summary">>

\* Blocks that a thread runs or not: the error log, a periodic checkpoint
\* and the debug summary.
Optional(t, i) ==
    \/ Program(t)[i] \in {"log_error", "debug_summary"}
    \/ t = MainThread /\ Program(t)[i] = "save_progress" /\ i <= 1 + MaxStatItems

\* The locks thread t holds.
Held(t) == {LockOf(lthread[t].stack[i]) : i \in 1..Len(lthread[t].stack)}

LockFree(l) == \A t \in LockThreads : l \notin Held(t)

InitLocks ==
    /\ pc = "locks"
    /\ lthread = [t \in LockThreads |->
                    [idx |-> 1, stack |-> <<>>, want |-> "none"]]
    /\ dpc = "none" /\ late_render = FALSE
    /\ FetchIdle
    /\ listing = <<>> /\ details = <<>> /\ merged = <<>>
    /\ offline = FALSE /\ page = NoPage /\ extracted_units = <<>>
    /\ parking_spots = None
    /\ building_type = NoneText
    /\ all_data = <<>> /\ grouped = <<>> /\ deduplicated = <<>>
    /\ removed = 0
    /\ file = <<>>
    /\ file_exists = FALSE
    /\ runIdle
    /\ StatIdle

lockFrame ==
    UNCHANGED <<runVars, statVars, dedupeVars, extractVars, mergeVars,
                displayVars, fetchVars>>

\* The thread reaches the `with` statement of its next block.
LockRequest(t) ==
    /\ lthread[t].want = "none" /\ lthread[t].stack = <<>>
    /\ lthread[t].idx <= Len(Program(t))
    /\ lthread' = [lthread EXCEPT ![t].want = Program(t)[lthread[t].idx]]
    /\ lockFrame

\* The thread passes a block it does not run.
LockSkip(t) ==
    /\ lthread[t].want = "none" /\ lthread[t].stack = <<>>
    /\ lthread[t].idx <= Len(Program(t))
    /\ Optional(t, lthread[t].idx)
    /\ lthread' = [lthread EXCEPT ![t].idx = @ + 1]
    /\ lockFrame

\* threading.Lock.acquire: the lock is free and the block is entered; a
\* lock-taking call in its body is the next to be awaited.
LockAcquire(t) ==
    /\ lthread[t].want # "none"
    /\ LockFree(LockOf(lthread[t].want))
    /\ lthread' = [lthread EXCEPT
                     ![t].stack = Append(@, lthread[t].want),
                     ![t].want = CallsInside(lthread[t].want)]
    /\ lockFrame

\* The `with` block ends and releases its lock; the display thread starts
\* over, every other thread goes on to its next block.
LockRelease(t) ==
    /\ lthread[t].want = "none" /\ lthread[t].stack # <<>>
    /\ lthread' = [lthread EXCEPT
                     ![t].stack = SubSeq(@, 1, Len(@) - 1),
                     ![t].idx = IF Len(lthread[t].stack) = 1
                                   /\ t # DisplayThread
                                  THEN @ + 1 ELSE @]
    /\ lockFrame

NextLocks ==
    \E t \in LockThreads :
        \/ LockRequest(t)
        \/ LockSkip(t)
        \/ LockAcquire(t)
        \/ LockRelease(t)

SpecLocks == InitLocks /\ [][NextLocks]_vars

\* ------------------------ fetch_listings_multi_city_page_parallel.py (pages)
\* The fields of `fetcher`:
\*   site              per city, the number of its pages that hold listings
\*   task_queue        the tasks not yet taken, in order
\*   unfinished_tasks  task_queue's count of tasks not yet marked done
\*   city_completed    per city, the flag of the global city_completed
\*   worker            per worker thread: position, task and fetch result
\*   results_queue     the results stored, in order
\*   fetch_failed      history: the tasks whose fetch_page gave up
\*   main              position of main

\* The enabled cities, and the pages 1..args.max_pages queued for each.
FetchCities == 1..MaxFetchCities
FetchPages == 1..MaxFetchPages

\* None: the poison pill on the task queue, and a worker's `task` while it
\* holds none.
PoisonPill == <<0, 0>>

\* lines 216-219: the task queue main builds, city by city, page by page.
AllTasks ==
    [k \in 1..(MaxFetchCities * MaxFetchPages) |->
        <<((k - 1) \div MaxFetchPages) + 1, ((k - 1) % MaxFetchPages) + 1>>]

\* The number of listings the site has on page p of city c: the pages up to
\* site[c] hold listings, the later ones are empty.
PageListings(c, p) == IF p <= fetcher.site[c] THEN 1 ELSE 0

\* lines 90-96: what fetch_page returns when its three attempts all failed,
\* the length of [].
GaveUp == 0

\* line 131: if len(listings) == 0
MarksCompleted(n) == n = 0

\* The worker threads main started, lines 229-238.
FetchWorkers == DOMAIN fetcher.worker

\* The task worker thread w holds: its city and its page.
TaskOf(w) == fetcher.worker[w].task

\* The page fetcher after main has built the queue and started its threads
\* (lines 205-238); each thread is about to call setup_driver.
InitFetch ==
    /\ pc = "fetch"
    /\ \E st \in [FetchCities -> 0..MaxFetchPages], n \in 1..MaxFetchWorkers :
          fetcher =
            [site |-> st,
             task_queue |-> AllTasks,
             unfinished_tasks |-> Len(AllTasks),
             city_completed |-> [c \in FetchCities |-> FALSE],
             worker |-> [w \in 1..n |->
                           [pc |-> "setup", task |-> PoisonPill,
                            listings |-> 0]],
             results_queue |-> <<>>,
             fetch_failed |-> {},
             main |-> "join"]
    /\ lthread = <<>>
    /\ dpc = "none" /\ late_render = FALSE
    /\ listing = <<>> /\ details = <<>> /\ merged = <<>>
    /\ offline = FALSE /\ page = NoPage /\ extracted_units = <<>>
    /\ parking_spots = None
    /\ building_type = NoneText
    /\ all_data = <<>> /\ grouped = <<>> /\ deduplicated = <<>>
    /\ removed = 0
    /\ file = <<>>
    /\ file_exists = FALSE
    /\ runIdle
    /\ StatIdle

fetchFrame ==
    UNCHANGED <<runVars, statVars, dedupeVars, extractVars, mergeVars,
                displayVars, lockVars>>

\* line 106: setup_driver returns a session; the thread enters its loop.
FetchSetup(w) ==
    /\ fetcher.worker[w].pc = "setup"
    /\ fetcher' = [fetcher EXCEPT !.worker[w].pc = "get"]
    /\ fetchFrame

\* lines 106, 147-155: setup_driver raises; the thread reports a fatal error
\* and ends without taking a task.
FetchSetupFails(w) ==
    /\ fetcher.worker[w].pc = "setup"
    /\ fetcher' = [fetcher EXCEPT !.worker[w].pc = "exited"]
    /\ fetchFrame

\* lines 112-117: task_queue.get returns the head of the queue; a poison pill
\* ends the thread.
FetchGet(w) ==
    /\ fetcher.worker[w].pc = "get"
    /\ fetcher.task_queue # <<>>
    /\ fetcher' = [fetcher EXCEPT
                     !.task_queue = Tail(@),
                     !.worker[w].pc =
                         IF Head(fetcher.task_queue) = PoisonPill
                           THEN "exited" ELSE "check",
                     !.worker[w].task = Head(fetcher.task_queue)]
    /\ fetchFrame

\* lines 112, 142-145: the queue stayed empty for the two seconds of the
\* timeout; queue.Empty is raised and the thread leaves its loop.
FetchGetTimeout(w) ==
    /\ fetcher.worker[w].pc = "get"
    /\ fetcher.task_queue = <<>>
    /\ fetcher' = [fetcher EXCEPT !.worker[w].pc = "exited"]
    /\ fetchFrame

\* lines 120-124: under stats_lock the city is found completed; the task is
\* marked done without a fetch.
FetchSkip(w) ==
    /\ fetcher.worker[w].pc = "check"
    /\ fetcher.city_completed[TaskOf(w)[1]]
    /\ fetcher' = [fetcher EXCEPT
                     !.unfinished_tasks = @ - 1,
                     !.worker[w].pc = "get",
                     !.worker[w].task = PoisonPill]
    /\ fetchFrame

\* lines 120-127: the city is not completed; the thread goes on to fetch.
FetchProceed(w) ==
    /\ fetcher.worker[w].pc = "check"
    /\ ~fetcher.city_completed[TaskOf(w)[1]]
    /\ fetcher' = [fetcher EXCEPT !.worker[w].pc = "fetch"]
    /\ fetchFrame

\* lines 54-88, 127: fetch_page returns the page's listings (a failed attempt
\* that a retry made good included).
FetchPage(w) ==
    /\ fetcher.worker[w].pc = "fetch"
    /\ fetcher' = [fetcher EXCEPT
                     !.worker[w].pc = "store",
                     !.worker[w].listings =
                         PageListings(TaskOf(w)[1], TaskOf(w)[2])]
    /\ fetchFrame

\* lines 90-96, 127: the three attempts all raised; fetch_page returns [].
FetchPageFails(w) ==
    /\ fetcher.worker[w].pc = "fetch"
    /\ fetcher' = [fetcher EXCEPT
                     !.worker[w].pc = "store",
                     !.worker[w].listings = GaveUp,
                     !.fetch_failed = @ \cup {TaskOf(w)}]
    /\ fetchFrame

\* lines 131-140: an empty result marks the city completed; the result is
\* stored and the task is marked done.
FetchStore(w) ==
    /\ fetcher.worker[w].pc = "store"
    /\ fetcher' = [fetcher EXCEPT
                     !.city_completed[TaskOf(w)[1]] =
                         MarksCompleted(fetcher.worker[w].listings) \/ @,
                     !.results_queue =
                         Append(@, <<TaskOf(w)[1], TaskOf(w)[2],
                                     fetcher.worker[w].listings>>),
                     !.unfinished_tasks = @ - 1,
                     !.worker[w].pc = "get",
                     !.worker[w].task = PoisonPill]
    /\ fetchFrame

\* lines 241-245: task_queue.join() returns once no task is unfinished; main
\* puts one poison pill per worker.
FetchJoinReturns ==
    /\ fetcher.main = "join"
    /\ fetcher.unfinished_tasks = 0
    /\ fetcher' = [fetcher EXCEPT
                     !.task_queue =
                         @ \o [k \in 1..Cardinality(FetchWorkers) |-> PoisonPill],
                     !.unfinished_tasks = @ + Cardinality(FetchWorkers),
                     !.main = "stopping"]
    /\ fetchFrame

\* lines 248-260: every worker thread has ended; main collects the results.
FetchWorkersJoined ==
    /\ fetcher.main = "stopping"
    /\ \A w \in FetchWorkers : fetcher.worker[w].pc = "exited"
    /\ fetcher' = [fetcher EXCEPT !.main = "done"]
    /\ fetchFrame

\* One step of worker thread w.
FetchWorker(w) ==
    \/ FetchSetup(w) \/ FetchSetupFails(w)
    \/ FetchGet(w) \/ FetchGetTimeout(w)
    \/ FetchSkip(w) \/ FetchProceed(w)
    \/ FetchPage(w) \/ FetchPageFails(w)
    \/ FetchStore(w)

\* One step of main.
FetchMain == FetchJoinReturns \/ FetchWorkersJoined

NextFetch == FetchMain \/ \E w \in FetchWorkers : FetchWorker(w)

SpecFetch == InitFetch /\ [][NextFetch]_vars

\* Every thread that can take a step eventually takes one.
SpecFetchLive ==
    /\ SpecFetch
    /\ WF_vars(FetchMain)
    /\ \A w \in 1..MaxFetchWorkers :
          WF_vars(w \in FetchWorkers /\ FetchWorker(w))

\* ------------------------------------------------------------------ claims
\* The batch-creation loop has ended and the batches are submitted.
Partitioned == pc = "collect"

\* Where batch b starts in the backlog (0-based).
Offset(b) == (b - 1) * BatchSize(Len(listings), num_workers)

\* The places <<b, k>> of the batches that hold backlog item x.
PlacesOf(x) ==
    {p \in {<<b, k>> : b \in 1..Len(batches), k \in 1..Len(listings)} :
        p[2] <= Len(batches[p[1]]) /\ batches[p[1]][p[2]] = x}

\* C1: for every backlog and every worker count >= 1 the batches are
\* contiguous slices of the backlog, their concatenation in batch order is the
\* backlog, and every backlog item lies in exactly one batch.
C1_BatchesPartitionBacklog ==
    /\ \A b \in 1..Len(batches) :
          /\ batches[b] # <<>>
          /\ \A k \in 1..Len(batches[b]) :
                Offset(b) + k <= Len(listings)
                /\ batches[b][k] = listings[Offset(b) + k]
    /\ Partitioned =>
          /\ Concat(batches) = listings
          /\ \A x \in Range(listings) : Cardinality(PlacesOf(x)) = 1

\* C1 witness: a backlog split into three batches, the last one shorter.
C1_Witness ==
    /\ Partitioned
    /\ Len(batches) = 3
    /\ Len(batches[3]) < Len(batches[1])

\* ceil(n / w)
CeilDiv(n, w) == (n + w - 1) \div w

\* C2 (as claimed): at most num_workers batches are created, each of size
\* ceil(len(backlog) / num_workers) except a possibly smaller final batch.
C2_AtMostWBatchesOfCeilSize ==
    Partitioned =>
       /\ Len(batches) <= num_workers
       /\ \A b \in 1..Len(batches) :
             /\ Len(batches[b]) <= CeilDiv(Len(listings), num_workers)
             /\ b < Len(batches) =>
                   Len(batches[b]) = CeilDiv(Len(listings), num_workers)

\* ------------------------------------------------------- claims on the run
Completed == pc = "done"

\* Some record of the list carries ref_id r as its identifier.
HasId(recs, r) == \E k \in 1..Len(recs) : recs[k].ref_id = r

\* Some record of the list carries listing i as its parent back-reference.
HasParent(recs, i) == \E k \in 1..Len(recs) : recs[k].parent_ref_id = i

\* Batch b ended with a batch-level fatal error: it left without a session.
BatchFailed(b) == wpc[b] \in {"finally", "done"} /\ driver[b] = "none"

\* C3 (as claimed): after a run that completes, every backlog item's ref_id
\* is the identifier of some output record.
C3_OutputSupersetById ==
    Completed => \A i \in Range(listings) : HasId(file, <<i, 0>>)

\* C3 (amended): after a run that completes, every backlog item's ref_id is
\* the identifier or the parent back-reference of some output record.
C3_OutputSupersetByIdOrParent ==
    Completed =>
        \A i \in Range(listings) : HasId(file, <<i, 0>>) \/ HasParent(file, i)

\* C3 witness: a completed run with a fanned-out item, a failed item and a
\* batch that ended with a batch-level fatal error.
C3_Witness ==
    /\ Completed
    /\ \E b \in Batches : "multi" \in Range(outcomes[b])
    /\ \E b \in Batches : "failed" \in Range(outcomes[b])
    /\ \E b \in Batches : BatchFailed(b)

\* Batch b has just finished an item, and the item failed.
ItemFailedStep(b) ==
    /\ Len(outcomes'[b]) = Len(outcomes[b]) + 1
    /\ outcomes'[b][Len(outcomes'[b])] = "failed"

\* C4: a failed item appends the original, unmerged Listing Reference to the
\* batch's results, adds one to completed and one to failed, and the loop goes
\* on: a batch that got its session processes every one of its items.
C4_FailedItemKeptBatchContinues ==
    /\ [](\A b \in Batches :
            wpc[b] = "done" /\ ~BatchFailed(b) =>
                Len(outcomes[b]) = Len(batches[b]))
    /\ [][\A b \in DOMAIN outcomes :
            ItemFailedStep(b) =>
                /\ results'[b] = Append(results[b], Original(Current(b)))
                /\ stats'.completed = stats.completed + 1
                /\ stats'.failed = stats.failed + 1
                /\ stats'.success = stats.success
                /\ widx'[b] = widx[b] + 1
                /\ wpc'[b] = "loop"]_vars

\* C4 witness: a finished batch whose first item failed and whose second item
\* was then extracted.
C4_Witness ==
    \E b \in Batches :
        /\ wpc[b] = "done"
        /\ Len(outcomes[b]) >= 2
        /\ outcomes[b][1] = "failed"
        /\ outcomes[b][2] = "single"
        /\ results[b][1] = Original(batches[b][1])

\* C5: a batch that ends with a batch-level fatal error returns exactly its
\* original Listing References, in order; the other batches still run, and
\* when scrape_parallel returns every batch's return value is in the
\* accumulation.
C5_BatchErrorReturnsOriginals ==
    /\ \A b \in Batches :
          BatchFailed(b) =>
              /\ Len(retval[b]) = Len(batches[b])
              /\ \A k \in 1..Len(batches[b]) :
                    retval[b][k] = Original(batches[b][k])
    /\ new_listings_bound =>
          \A b \in Batches :
              /\ wpc[b] = "done"
              /\ Range(retval[b]) \subseteq Range(new_listings)
              /\ BatchFailed(b) \/ Len(outcomes[b]) = Len(batches[b])

\* C5 witness: scrape_parallel has returned; one batch failed at batch level
\* and another one delivered an enriched record.
C5_Witness ==
    /\ new_listings_bound
    /\ \E b, c \in Batches :
          /\ BatchFailed(b)
          /\ ~BatchFailed(c)
          /\ \E k \in 1..Len(retval[c]) : retval[c][k].scraped_at = ThisRun

\* C6: every session a batch worker holds is closed exactly once before the
\* worker returns, however the batch ends: driver.quit() is never called
\* twice, and a worker that has returned holds no open session.
C6_SessionClosedExactlyOnce ==
    \A b \in Batches :
        /\ quit_calls[b] <= 1
        /\ driver[b] = "closed" <=> quit_calls[b] = 1
        /\ wpc[b] = "done" => driver[b] # "open"
        /\ driver[b] = "open" => wpc[b] = "loop"

\* C6 witness: all batches have returned; one had a failed item and closed its
\* session, another one never got a session.
C6_Witness ==
    /\ \A b \in Batches : wpc[b] = "done"
    /\ \E b \in Batches :
          /\ "failed" \in Range(outcomes[b])
          /\ driver[b] = "closed"
          /\ quit_calls[b] = 1
    /\ \E b \in Batches : BatchFailed(b) /\ quit_calls[b] = 0

\* The run was interrupted and main has ended.
EndedAfterInterrupt == pc \in {"exited", "crashed"}

\* C9 (as claimed): after an interrupt, the checkpoint file holds the results
\* of every batch that had finished when the interrupt arrived.
C9_InterruptKeepsFinishedBatches ==
    EndedAfterInterrupt =>
        \A b \in at_interrupt : Range(retval[b]) \subseteq Range(file)

\* C10 (as claimed): in a non-force run every checkpoint write leaves in the
\* file every record the file held before the run and every record written
\* by the previous checkpoint of the run.
C10_CheckpointNeverLosesRecords ==
    [][(~force_rescrape /\ saves' > saves) =>
          /\ Range(file0) \subseteq Range(file')
          /\ saves > 0 => Range(file) \subseteq Range(file')]_vars

\* --------------------------------------------------- claims on the counters
\* No batch worker is inside a counter update.
Quiescent == \A t \in StatWorkers : spc[t] = "idle"

\* C7: starting from zeroed counters, after N successful and M failed item
\* completions by concurrent workers (and S skipped ones in the downloader),
\* completed = N + M + S, success = N and failed = M: no update is lost.
C7_NoLostUpdate ==
    Quiescent =>
        /\ stats.success = performed["success"]
        /\ stats.failed = performed["failed"]
        /\ stats.skipped = performed["skipped"]
        /\ stats.completed =
              performed["success"] + performed["failed"] + performed["skipped"]

\* C7 witness: every worker has completed all its items, some successfully and
\* some not.
C7_Witness ==
    /\ Quiescent
    /\ \A t \in StatWorkers : left[t] = 0
    /\ performed["success"] >= 1
    /\ performed["failed"] >= 1
    /\ stats.completed >= 2

\* C8: whenever the display task reads the counters (it holds stats_lock),
\* completed = success + failed (+ skipped in the downloader), and so is what
\* it has read.
C8_DisplayReadsWholeItems ==
    /\ DisplayThread \in lock_holders =>
          stats.completed = stats.success + stats.failed + stats.skipped
    /\ spc[DisplayThread] \in {"idle", "release"} =>
          shown.completed = shown.success + shown.failed + shown.skipped

\* C8 witness: the display has read counters that include an item that was
\* not a success while a worker still has items to count.
C8_Witness ==
    /\ spc[DisplayThread] = "release"
    /\ shown.completed >= 1
    /\ shown.failed + shown.skipped >= 1
    /\ \E t \in StatWorkers : left[t] > 0

\* ------------------------------------------- claims on the periodic save
\* C11 (as claimed): whenever appending a batch's results makes the
\* accumulation hold more whole intervals of batch_save records than before,
\* a checkpoint of the full accumulation is written in that step.
C11_CheckpointWhenIntervalCrossed ==
    [][(Len(detailed_listings') \div batch_save
            > Len(detailed_listings) \div batch_save) =>
          /\ saves' = saves + 1
          /\ file' = detailed_listings']_vars

\* C12 (as claimed): a periodic save_progress call that fails does not abort
\* the run: when main ends without an interrupt after such a failure,
\* scrape_parallel has returned and every batch's results are in what it
\* returned.
C12_SaveFailureDoesNotAbort ==
    (save_errors > 0 /\ pc \in {"done", "aborted"}) =>
        /\ new_listings_bound
        /\ \A b \in Batches : Range(retval[b]) \subseteq Range(new_listings)

\* ---------------------------------------------- claims on the deduplicator
Deduped == pc = "deduped"

\* The entries of the list with ref_id r.
WithId(recs, r) == {k \in 1..Len(recs) : recs[k].ref_id = r}

\* C13: the output holds exactly one record per distinct ref_id of the input;
\* that record is one of the input's records with this ref_id (the record
\* itself when it is the only one) and no record of the ref_id has a
\* lexicographically greater scraped_at; removed = input size - output size.
C13_DedupeKeepsLatestPerId ==
    Deduped =>
        /\ \A k \in 1..Len(all_data) :
              Cardinality(WithId(file, all_data[k].ref_id)) = 1
        /\ \A k \in 1..Len(file) :
              /\ file[k] \in Range(all_data)
              /\ \A j \in WithId(all_data, file[k].ref_id) :
                    ~LexLess(file[k].scraped_at, all_data[j].scraped_at)
        /\ removed = Len(all_data) - Len(file)

\* C13 witness: a ref_id with several records of different scraped_at, the
\* latest not first, next to a ref_id with a single record.
C13_Witness ==
    /\ Deduped
    /\ Len(all_data) = 3
    /\ removed = 1
    /\ \E j, k \in 1..Len(all_data) :
          /\ j < k
          /\ all_data[j].ref_id = all_data[k].ref_id
          /\ LexLess(all_data[j].scraped_at, all_data[k].scraped_at)

\* The orderings of a list.
Orderings(data) ==
    {[k \in 1..Len(data) |-> data[p[k]]] : p \in Permutations(1..Len(data))}

\* C14 (as claimed): every ordering of the input's records gives the same set
\* of output records.
C14_DedupeOrderIndependent ==
    Deduped =>
        \A other \in Orderings(all_data) :
            Range(DeduplicateDatabase(other)) = Range(file)

\* ------------------------------------------------- claims on a later run
\* C15 (as claimed): the dataset written at the end of a completed run holds
\* at most one record per identifier, earlier runs' records included.
C15_FinalDatasetOneRecordPerId ==
    Completed =>
        \A j, k \in 1..Len(file) : j # k => file[j].ref_id # file[k].ref_id

\* An earlier run extracted listing i and recorded it in the checkpoint file.
ExtractedBefore(i) ==
    \E k \in 1..Len(file0) :
        /\ file0[k].scraped_at = PriorRun
        /\ file0[k].ref_id = <<i, 0>> \/ file0[k].parent_ref_id = i

\* C20 (as claimed): in a non-force run no listing an earlier run extracted
\* and recorded in the checkpoint file is in the backlog or in a batch.
C20_ScrapedListingsSkipped ==
    (~force_rescrape /\ pc # "start") =>
        /\ \A i \in Range(listings) : ~ExtractedBefore(i)
        /\ \A b \in 1..Len(batches) :
              \A i \in Range(batches[b]) : ~ExtractedBefore(i)

\* --------------------------------------------- claims on multi-unit groups
\* C17 (as claimed): every list counted in multi_unit_found has at least two
\* members: total_units_found >= 2 * multi_unit_found.
C17_GroupsHaveTwoMembers ==
    stats.total_units_found >= 2 * stats.multi_unit_found

\* ------------------------------------------------ claims on the extractor
\* C16 (as claimed): a page with k >= 2 unit cards yields exactly k records
\* with the identifiers <<parent, 1>> .. <<parent, k>>, each with the parent
\* identifier as back-reference and the same building address.
C16_OneRecordPerUnitCard ==
    (pc \in {"returned_units", "returned_none"} /\ page.cards >= 2) =>
        /\ Len(extracted_units) = page.cards
        /\ \A idx \in 1..Len(extracted_units) :
              /\ extracted_units[idx].ref_id = <<ExtractRef, idx>>
              /\ extracted_units[idx].parent_ref_id = ExtractRef
              /\ extracted_units[idx].building_address
                    = extracted_units[1].building_address

\* The patterns the extractor in use applies.
PatternsInUse == IF offline THEN OfflineParkingPatterns ELSE ParkingPatterns

\* The patterns that match the text with a number in 1..99.
PlausiblePatterns(text) ==
    {k \in 1..Len(PatternsInUse) :
        /\ PatternsInUse[k].group # 0
        /\ FirstMatch(PatternsInUse[k], text) # 0
        /\ GroupValue(PatternsInUse[k], text,
                      FirstMatch(PatternsInUse[k], text)) \in 1..99}

\* C18 (as claimed): the parking_spots of a returned record is never 100 or
\* more, and when some pattern matches with a number in 1..99 it is the
\* number of the first such pattern.
C18_ParkingFirstPlausiblePattern ==
    pc = "returned_details" =>
        /\ parking_spots < 100
        /\ \A k \in PlausiblePatterns(page.text) :
              (\A j \in PlausiblePatterns(page.text) : k <= j) =>
                  parking_spots =
                      GroupValue(PatternsInUse[k], page.text,
                                 FirstMatch(PatternsInUse[k], page.text))

\* C19 (as claimed): when no pattern yields a number and the text has a
\* spelled-out quantity followed by parking or stall, parking_spots is the
\* number the word stands for.
C19_WordFallbackYieldsNumber ==
    (/\ pc = "returned_details"
     /\ PlausiblePatterns(page.text) = {}
     /\ \E k \in 1..Len(WordNumbers) : WordFound(WordNumbers[k].word, page.text))
        => parking_spots = WordParking(page.text)

\* ------------------------------------------------- claims on the final save
\* C21: when the run completes normally, every batch has been collected and
\* the file holds the final checkpoint: the records kept from earlier runs
\* followed by every record that every batch returned, and nothing else.
C21_FinalSaveHoldsEverything ==
    Completed =>
        /\ collected = Batches
        /\ file_exists
        /\ file = existing \o detailed_listings
        /\ \A b \in Batches : Range(retval[b]) \subseteq Range(file)
        /\ ~force_rescrape => Range(file0) \subseteq Range(file)

C21_Witness ==
    /\ Completed
    /\ ~force_rescrape
    /\ existing # <<>>
    /\ Cardinality(Batches) >= 2
    /\ \A b \in Batches : retval[b] # <<>>
    /\ ~SaveDue(detailed_listings)


\* ------------------------------------------------ claims on the extraction
\* C22: a page with exactly one unit card is extracted on the single-unit
\* path: the extractor returns one dict, not a list of units, with the
\* listing's own ref_id and is_multi_unit False, and the worker does not count
\* it as a multi-unit listing.
C22_OneCardIsSingleUnit ==
    (page.cards = 1 /\ Returned) =>
        /\ pc = "returned_details"
        /\ extracted_units = <<>>
        /\ Details.ref_id = <<ExtractRef, 0>>
        /\ Details.is_multi_unit = FALSE
        /\ ~CountedAsMultiUnit

C22_Witness == page.cards = 1 /\ pc = "returned_details" /\ page.text # <<>>


\* ------------------------------------------------------ claims on the merge
\* The records the extraction returned, one per merged record.
ExtractedRecords ==
    IF details.tag = "list" THEN details.val
    ELSE IF details.tag = "dict" THEN <<details.val>> ELSE <<>>

Extracted == pc = "merged" /\ details.tag # "none"

\* C23: after a successful extraction there is one merged record per
\* extracted record; it has the keys of both, every key of the extracted
\* record at the extracted value, and every key of the Listing Reference that
\* the extracted record does not have at its original value.
C23_MergeOverridesAndKeeps ==
    Extracted =>
        /\ Len(merged) = Len(ExtractedRecords)
        /\ \A n \in 1..Len(merged) :
              LET d == ExtractedRecords[n] IN
              /\ DOMAIN merged[n] = DOMAIN listing \cup DOMAIN d
              /\ \A k \in DOMAIN d : merged[n][k] = d[k]
              /\ \A k \in DOMAIN listing \ DOMAIN d :
                    merged[n][k] = listing[k]

C23_Witness ==
    /\ Extracted
    /\ details.tag = "dict"
    /\ listing.beds = 2 /\ details.val.beds = 1
    /\ listing.price = 1500
    /\ merged[1].beds = 1 /\ merged[1].price = 1500

\* The keys of both records whose unknown value is None.
SentinelKeys == {"beds", "price"}

\* C30 (as claimed): a key that the Listing Reference knows and for which the
\* extraction found nothing keeps the value of the Listing Reference in the
\* merged record.
C30_MergeKeepsKnownValues ==
    Extracted =>
        \A n \in 1..Len(merged) :
            \A k \in SentinelKeys \cap DOMAIN listing
                                  \cap DOMAIN ExtractedRecords[n] :
                (listing[k] # None /\ ExtractedRecords[n][k] = None)
                    => merged[n][k] = listing[k]


\* ---------------------------------------------------- claims on the workers
\* The batches whose worker holds a session it has not yet quit.
OpenSessions == {b \in Batches : driver[b] = "open"}

\* C24: in every state active_workers lies between 0 and num_workers and at
\* most num_workers sessions are open, also when there are more batches than
\* workers.
C24_ActiveWorkersBounded ==
    /\ 0 <= stats.active_workers
    /\ stats.active_workers <= num_workers
    /\ Cardinality(OpenSessions) <= num_workers

C24_Witness ==
    /\ Cardinality(Batches) > num_workers
    /\ stats.active_workers = num_workers
    /\ Cardinality(OpenSessions) = num_workers
    /\ \E b \in Batches : wpc[b] = "queued"

\* Every batch worker has returned.
AllWorkersDone == Batches # {} /\ \A b \in Batches : wpc[b] = "done"

\* C25: once every batch worker has finished, whether its items succeeded or
\* failed, its session could not be created, or closing the session failed,
\* active_workers is 0 and batches_completed equals total_batches.
C25_CountersSettleWhenWorkersDone ==
    AllWorkersDone =>
        /\ stats.active_workers = 0
        /\ stats.batches_completed = stats.total_batches
        /\ stats.total_batches = Cardinality(Batches)

C25_Witness ==
    /\ AllWorkersDone
    /\ Cardinality(Batches) = 3
    /\ \E b \in Batches : driver[b] = "closed" /\ "failed" \in Range(outcomes[b])
    /\ \E b \in Batches : driver[b] = "closed" /\ "failed" \notin Range(outcomes[b])
    /\ \E b \in Batches : driver[b] # "closed"


\* ----------------------------------------------------- claims on the display
\* C26 (as claimed): once the orchestrator has left its loop, because every
\* batch was collected or because it was interrupted, the stop signal is set
\* and the display thread renders no further status.
C26_DisplayStopsWithRun ==
    RunStopped => (StopUpdatesIsSet /\ ~late_render)


\* ------------------------------------------------------- claims on the locks
\* C27: no thread holds stats_lock and file_lock together, no thread waits for
\* a lock it holds, and whenever a thread waits for a lock, the thread that
\* holds that lock is not itself waiting, so it goes on to release it: the
\* workers, the display thread and the orchestrator cannot deadlock.
C27_NoLockNesting ==
    \A t \in LockThreads :
        /\ Cardinality(Held(t)) <= 1
        /\ lthread[t].want # "none" =>
              /\ LockOf(lthread[t].want) \notin Held(t)
              /\ \A u \in LockThreads :
                    LockOf(lthread[t].want) \in Held(u)
                        => lthread[u].want = "none"

C27_Witness ==
    /\ Held(MainThread) = {"file_lock"}
    /\ \E t \in StatWorkers : Held(t) = {"stats_lock"}
    /\ lthread[DisplayThread].want = "print_live_status"


\* C28 (as claimed): a failure inside the extraction never makes the item a
\* failed one (the extractor returns a record, not None), does not keep the
\* fields after it from being extracted, and every returned record has every
\* key, with an extracted value or None.
C28_FieldFailuresAreNotFatal ==
    Returned =>
        /\ pc # "returned_none"
        /\ pc = "returned_details" =>
              /\ DOMAIN Details = DetailsKeys(offline)
              /\ Details.beds = page.beds
              /\ ~offline => Details.building_type = BuildingType(page)
        /\ pc = "returned_units" =>
              \A n \in 1..Len(extracted_units) :
                  DOMAIN extracted_units[n] = UnitKeys


\* ---------------------------------------------------- claims on the ordering
\* The place in batch b of the backlog item a record belongs to.
PlaceIn(b, rec) ==
    CHOOSE j \in 1..Len(batches[b]) : batches[b][j] = rec.ref_id[1]

\* The records are those of the first n items of batch b, item after item in
\* the assigned order.
InAssignedOrder(recs, b, n) ==
    /\ \A k \in 1..Len(recs) : recs[k].ref_id[1] \in Range(batches[b])
    /\ {PlaceIn(b, recs[k]) : k \in 1..Len(recs)} = 1..n
    /\ \A k \in 1..(Len(recs) - 1) :
          PlaceIn(b, recs[k]) <= PlaceIn(b, recs[k + 1])

C31_StatsAccountForBacklog ==
    new_listings_bound =>
        /\ stats.total = Len(listings)
        /\ stats.completed = stats.total
        /\ stats.success + stats.failed = stats.total

\* An earlier run attempted listing i, failed, and left only its original,
\* unenriched record in the checkpoint file.
FailedBefore(i) ==
    /\ \E k \in 1..Len(file0) : file0[k] = Original(i)
    /\ ~ExtractedBefore(i)

\* C32 (as claimed): a listing whose earlier attempt failed, and which the
\* checkpoint holds only in its original form, stays in the backlog of the
\* next non-force run: the skip filter of main never drops it as already
\* scraped.
C32_FailedListingsRetried ==
    [][(pc = "start" /\ pc' # "start" /\ ~force_rescrape) =>
          \A i \in Range(listings) :
              FailedBefore(i) => i \in Range(listings')]_vars

\* ------------------------------------------------ claims on the interrupt
\* C33: after an interrupt, main's handler runs only when every submitted
\* batch worker has returned: no worker is running or queued, no session is
\* open and active_workers is 0; until then control stays in scrape_parallel.
C33_HandlerRunsAfterAllWorkers ==
    pc \in {"handler", "exited", "crashed"} =>
        /\ \A b \in Batches : wpc[b] = "done"
        /\ OpenSessions = {}
        /\ stats.active_workers = 0

\* C33 witness: the interrupt arrived in the collection loop while a batch was
\* still queued and another held an open session; the handler now runs and
\* both have since returned.
C33_Witness ==
    /\ pc = "handler"
    /\ ~new_listings_bound
    /\ Cardinality(Batches \ at_interrupt) >= 2
    /\ \E b \in Batches \ at_interrupt : driver[b] = "closed"
    /\ \A b \in Batches : wpc[b] = "done"

\* ------------------------------------------- claims on the page fetcher
\* C34 (as claimed): the page fetcher always terminates: every queued task is
\* eventually marked done, task_queue.join() returns and every worker thread
\* exits, also when worker threads cannot create their session or stop early.
C34_FetcherTerminates ==
    <>(/\ fetcher.main = "done"
       /\ \A w \in FetchWorkers : fetcher.worker[w].pc = "exited")

\* Page p of city c was fetched and its result stored with n listings.
Stored(c, p, n) ==
    \E k \in 1..Len(fetcher.results_queue) :
        fetcher.results_queue[k] = <<c, p, n>>

\* A page of city c past its last non-empty page was actually fetched and
\* held no listing.
EmptyPageFetched(c) ==
    \E p \in FetchPages :
        /\ p > fetcher.site[c]
        /\ <<c, p>> \notin fetcher.fetch_failed
        /\ Stored(c, p, 0)

\* C35 (as claimed): a city is marked completed only after one of its pages
\* was actually fetched and held no listing; and when the fetcher has ended,
\* every page before the city's first empty page has been fetched and its
\* listings stored, unless the fetch of that very page gave up.
C35_EarlyStopSkipsOnlyPastEnd ==
    /\ \A c \in FetchCities :
          fetcher.city_completed[c] => EmptyPageFetched(c)
    /\ fetcher.main = "done" =>
          \A c \in FetchCities : \A p \in FetchPages :
              (p <= fetcher.site[c] /\ <<c, p>> \notin fetcher.fetch_failed)
                  => Stored(c, p, PageListings(c, p))

====
